---- MODULE Spec2Model ----
(***************************************************************************)
(* Teaching Assistant Crew: the email-ingest orchestrator                  *)
(* (main.run_email_ingest), the SQLite store (database/db.py), the Google  *)
(* Calendar client with conflict detection, and the Twilio SMS client.     *)
(*                                                                         *)
(* Times are minutes.  A naive local datetime is an integer; an instant on *)
(* the calendar is an integer number of UTC minutes.                       *)
(***************************************************************************)
EXTENDS Integers, Sequences, FiniteSets, TLC

VARIABLES
    nudges,      \* table nudges: row i has id i (AUTOINCREMENT)
    notes,       \* table notes
    sent_log,    \* table sent_log
    ledger,      \* table email_ingest_log
    calendar,    \* events held by the Google calendar (UTC instants)
    emails,      \* emails handed to SMTPSender.send_email, in order
    smsOut,      \* SMS calls made by the orchestrator, in order
    pc,          \* pc[r]: where run r of run_email_ingest stands
    todo,        \* todo[r]: the part of `emails` the for loop still has to visit
    cfg,         \* which of calendar / smtp / sms a run gets (not None) from its environment
    delivered,   \* number of emails the trigger source has returned so far
    conflicts,   \* conflicts[r]: result of the last check_conflict read
    err,         \* err[r]: str(e) of the exception caught at main.py:282
    execs,       \* history: execs[id] = times the command of message id took effect
    transport,   \* bodies handed to client.messages.create by the SMS client
    briefing,    \* the run of run_daily_briefing: where it stands and what it gathered
    conn,        \* the connection of a store operation inside _get_connection
    fetched,     \* what the last get_pending_nudges call returned
    helper,      \* the SMS client's sender last called and its local `message`
    inbox        \* the IMAP folder of the trigger label: its messages in sequence order

vars == <<nudges, notes, sent_log, ledger, calendar, emails, smsOut, pc, todo,
          cfg, delivered, conflicts, err, execs, transport, briefing, conn, fetched, helper, inbox>>

store == <<nudges, notes, sent_log, ledger>>

\* Python's None / SQL NULL: for a text value, and for a time (it sorts first, as
\* SQLite sorts NULL).
None == "None"
NoDate == -1

(***************************************************************************)
(* Bounds of the model.                                                    *)
(***************************************************************************)
\* Emails the trigger source returns, over all runs together.
MaxDelivered == 3

\* The orchestrator runs the scheduler starts (main.py:9, "every 10-15 min").
Runs == {"r1", "r2"}

(***************************************************************************)
(* Time.                                                                   *)
(***************************************************************************)
HourMinutes == 60
DayMinutes == 24 * HourMinutes

\* os.getenv("TIMEZONE", "America/Chicago"): the zone the created event is booked in.
TIMEZONE == "America/Chicago"

\* Minutes to add to a wall-clock time of zone tz to get the UTC instant (CST is UTC-6).
UtcOffset(tz) == IF tz = "America/Chicago" THEN 6 * HourMinutes ELSE 0

\* datetime.now() of the runs, a naive local time: Feb 5, 08:00.
Now == 8 * HourMinutes

\* Naive local times the date parser produces for the texts of the model.
Feb5_4pm == 16 * HourMinutes

(***************************************************************************)
(* The trigger emails the Gmail label can hold, as get_unread_triggers     *)
(* returns them: each with the command _parse_command attached.            *)
(***************************************************************************)
Email(id, subj, type, content) ==
    [message_id |-> id, subject |-> subj, sender |-> "teacher@school.edu",
     command |-> [type |-> type, content |-> content]]

Mailbox ==
    { Email("m1", "ADD NUDGE: grade quizzes", "add_nudge", "grade quizzes"),
      Email("m2", "ADD MILESTONE: CDR slides due Feb 5 4pm", "add_milestone",
            "CDR slides due Feb 5 4pm"),
      Email("m3", "ADD MILESTONE: order parts", "add_milestone", "order parts"),
      Email("m4", "NOTE: lab went long", "note", "lab went long"),
      Email("m5", "TODAY?", "today", None),
      Email("m6", "hello", "unknown", None) }

\* Messages as they lie in the IMAP folder: with a Message-ID header or without one.
Letter(header, subj, content) == [header |-> header, subject |-> subj, content |-> content]
Letters ==
    { Letter(None, "NOTE: fire drill Friday", "fire drill Friday"),
      Letter(None, "NOTE: bring goggles", "bring goggles"),
      Letter("<a1@mail.school.edu>", "NOTE: room 12 booked", "room 12 booked") }

\* str(email_id) of the IMAP sequence number n, email_id being bytes.
SequenceKey(n) == <<"b'1'", "b'2'", "b'3'">>[n]

\* The message_id values the ledger can be keyed by.
MessageIds ==
    {m.message_id : m \in Mailbox}
        \cup {l.header : l \in {k \in Letters : k.header # None}}
        \cup {SequenceKey(n) : n \in 1..Cardinality(Letters)}

\* The lists get_unread_triggers can return: any order, repeats included.
Batches(maxLen) == UNION {[1..n -> Mailbox] : n \in 0..maxLen}

\* parse_datetime_from_text: dateutil's fuzzy parse finds a date in the text or the
\* function returns None (every exception is swallowed).
parse_datetime_from_text(text) ==
    IF text = "CDR slides due Feb 5 4pm" THEN Feb5_4pm ELSE NoDate

(***************************************************************************)
(* The store (database/db.py).  Every write is one INSERT or UPDATE inside *)
(* _get_connection: it either commits, giving the new table, or raises and *)
(* leaves the table as it was.                                             *)
(***************************************************************************)
Priorities == {"low", "normal", "high", "urgent"}
Statuses == {"pending", "sent", "completed", "cancelled"}
CommandTypes == {"add_nudge", "add_milestone", "note", "today", "unknown"}

Committed(rows) == [ok |-> TRUE, rows |-> rows, error |-> None]
Raised(rows, e) == [ok |-> FALSE, rows |-> rows, error |-> e]

\* Mutant of add_nudge: the source column is left to its default.
add_nudge_source_default(tbl, content, due_datetime, priority, source) ==
    IF content = None \/ priority \notin Priorities
    THEN Raised(tbl, "IntegrityError")
    ELSE Committed(Append(tbl, [content |-> content, due_datetime |-> due_datetime,
                                priority |-> priority, status |-> "pending",
                                source |-> "manual", completed_at |-> NoDate]))

\* INSERT INTO nudges (content, due_datetime, priority, source); status and
\* completed_at take the column defaults.
add_nudge(tbl, content, due_datetime, priority, source) ==
    IF content = None \/ priority \notin Priorities
    THEN Raised(tbl, "IntegrityError")
    ELSE Committed(Append(tbl, [content |-> content, due_datetime |-> due_datetime,
                                priority |-> priority, status |-> "pending",
                                source |-> source, completed_at |-> NoDate]))

\* SELECT * FROM nudges WHERE status = 'pending' ORDER BY due_datetime (NULLs first)
RECURSIVE SortByDue(_)
SortByDue(rows) ==
    IF rows = <<>> THEN <<>>
    ELSE LET i == CHOOSE i \in 1..Len(rows) :
                    /\ \A j \in 1..Len(rows) : rows[i].due_datetime <= rows[j].due_datetime
                    /\ \A j \in 1..(i - 1) : rows[j].due_datetime > rows[i].due_datetime
             rest == SubSeq(rows, 1, i - 1) \o SubSeq(rows, i + 1, Len(rows))
         IN  <<rows[i]>> \o SortByDue(rest)

\* Mutant of get_pending_nudges: a reminder due at the very time of the call is left out.
get_pending_nudges_strictly_before(tbl, include_future) ==
    SortByDue(SelectSeq(tbl, LAMBDA n :
        /\ n.status = "pending"
        /\ include_future \/ n.due_datetime = NoDate \/ n.due_datetime < Now))

get_pending_nudges(tbl, include_future) ==
    SortByDue(SelectSeq(tbl, LAMBDA n :
        /\ n.status = "pending"
        /\ include_future \/ n.due_datetime = NoDate \/ n.due_datetime <= Now))

\* UPDATE nudges SET status = 'sent' WHERE id = ?
mark_nudge_sent(tbl, nudge_id) ==
    [i \in 1..Len(tbl) |->
        IF i = nudge_id THEN [tbl[i] EXCEPT !.status = "sent"] ELSE tbl[i]]

\* UPDATE nudges SET status = 'completed', completed_at = now WHERE id = ?
complete_nudge(tbl, nudge_id) ==
    [i \in 1..Len(tbl) |->
        IF i = nudge_id
        THEN [tbl[i] EXCEPT !.status = "completed", !.completed_at = Now]
        ELSE tbl[i]]

\* INSERT INTO notes (content, tags, source)
add_note(tbl, content, tags, source) ==
    IF content = None
    THEN Raised(tbl, "IntegrityError")
    ELSE Committed(Append(tbl, [content |-> content, tags |-> tags, source |-> source]))

\* INSERT INTO sent_log: channel is CHECKed, recipient and content are NOT NULL.
log_sent(tbl, channel, recipient, content, subject, status, error_message) ==
    IF channel \notin {"email", "sms"} \/ recipient = None \/ content = None
    THEN Raised(tbl, "IntegrityError")
    ELSE Committed(Append(tbl, [channel |-> channel, recipient |-> recipient,
                                subject |-> subject, content |-> content,
                                status |-> status, error_message |-> error_message]))

\* Mutants of is_email_processed: one that counts only the rows logged "processed",
\* one that looks the id up in the subject column.
is_email_processed_only_status_processed(tbl, message_id) ==
    \E i \in 1..Len(tbl) :
        tbl[i].message_id = message_id /\ tbl[i].status = "processed"
is_email_processed_by_subject(tbl, message_id) ==
    \E i \in 1..Len(tbl) : tbl[i].subject = message_id

\* SELECT 1 FROM email_ingest_log WHERE message_id = ?
is_email_processed(tbl, message_id) ==
    \E i \in 1..Len(tbl) : tbl[i].message_id = message_id

\* Mutant of log_email_ingest: the table without UNIQUE on message_id.
log_email_ingest_without_unique(tbl, message_id, subject, sender, command_type, command_content, status, error_message) ==
    IF message_id = None \/ command_type \notin CommandTypes
    THEN Raised(tbl, "IntegrityError")
    ELSE Committed(Append(tbl, [message_id |-> message_id, subject |-> subject,
                                sender |-> sender, command_type |-> command_type,
                                command_content |-> command_content,
                                status |-> status, error_message |-> error_message]))

\* Mutant of log_email_ingest: INSERT OR REPLACE, the new row takes the old one's place.
log_email_ingest_or_replace(tbl, message_id, subject, sender, command_type, command_content, status, error_message) ==
    IF message_id = None \/ command_type \notin CommandTypes
    THEN Raised(tbl, "IntegrityError")
    ELSE LET row == [message_id |-> message_id, subject |-> subject,
                     sender |-> sender, command_type |-> command_type,
                     command_content |-> command_content,
                     status |-> status, error_message |-> error_message]
         IN  Committed(SelectSeq(tbl, LAMBDA old : old.message_id # message_id)
                           \o <<row>>)

\* INSERT INTO email_ingest_log: message_id is UNIQUE NOT NULL, command_type is
\* CHECKed against the five command types.
log_email_ingest(tbl, message_id, subject, sender, command_type, command_content, status, error_message) ==
    IF \/ message_id = None
       \/ \E i \in 1..Len(tbl) : tbl[i].message_id = message_id
       \/ command_type \notin CommandTypes
    THEN Raised(tbl, "IntegrityError")
    ELSE Committed(Append(tbl, [message_id |-> message_id, subject |-> subject,
                                sender |-> sender, command_type |-> command_type,
                                command_content |-> command_content,
                                status |-> status, error_message |-> error_message]))

(***************************************************************************)
(* The Google calendar client (integrations/google_calendar.py).           *)
(***************************************************************************)
\* events().list(timeMin, timeMax, singleEvents): the events that end after timeMin
\* and start before timeMax.
EventsList(cal, timeMin, timeMax) ==
    {e \in cal : e.end > timeMin /\ e.start < timeMax}

\* t.isoformat() + "Z": the naive local time, read by the API as a UTC instant.
IsoZ(t) == t + UtcOffset("UTC")

\* {"dateTime": t.isoformat(), "timeZone": TIMEZONE}: the wall-clock time t of the zone.
InZone(t) == t + UtcOffset(TIMEZONE)

check_conflict(cal, start_time, end_time) ==
    EventsList(cal, IsoZ(start_time), IsoZ(end_time))

\* The body create_event hands to events().insert.
EventBody(summary, start_time, end_time) ==
    [summary |-> summary, start |-> InZone(start_time), end |-> InZone(end_time)]

\* create_milestone's arguments to create_event.
\* A summary is a prefix and a title: f"[MILESTONE] {title}".
Summary(prefix, title) == <<prefix, title>>
MilestoneSummary(title) == Summary("[MILESTONE] ", title)
MilestoneEnd(due_datetime) == due_datetime + HourMinutes

\* Mutant of create_event_check: create-then-detect, the insert follows any read.
create_event_check_insert_anyway(cal, start_time, end_time) ==
    LET found == check_conflict(cal, start_time, end_time)
    IN  [conflicts |-> found, insert |-> TRUE]

\* create_event with check_conflicts=True, up to its return or its insert call: the
\* conflict read, and whether the insert follows.
create_event_check(cal, start_time, end_time) ==
    LET found == check_conflict(cal, start_time, end_time)
    IN  [conflicts |-> found, insert |-> found = {}]

\* get_teaching_schedule -> get_today_events: today's events, local midnight to the
\* next, both sent with "Z".
get_teaching_schedule(cal) ==
    LET today == Now - (Now % DayMinutes)
    IN  EventsList(cal, IsoZ(today), IsoZ(today + DayMinutes))

\* Events the calendar can hold before the runs: the spec's 4:00-4:30pm (Chicago)
\* staff meeting, and a class at 10:00-10:30am (Chicago).
StaffMeeting ==
    [summary |-> Summary("", "Staff meeting"), start |-> Feb5_4pm + UtcOffset("America/Chicago"),
     end |-> Feb5_4pm + UtcOffset("America/Chicago") + 30]
Robotics ==
    [summary |-> Summary("", "Period 3 - Robotics"),
     start |-> 10 * HourMinutes + UtcOffset("America/Chicago"),
     end |-> 10 * HourMinutes + UtcOffset("America/Chicago") + 30]
InitialCalendars == {{}, {StaffMeeting}, {Robotics}}

\* An evening event of the same day: 7:00-7:30pm (Chicago).
Conference ==
    [summary |-> Summary("", "Parent conference"),
     start |-> 19 * HourMinutes + UtcOffset("America/Chicago"),
     end |-> 19 * HourMinutes + UtcOffset("America/Chicago") + 30]

\* conflicts[0] of the list the API returns with orderBy="startTime".
FirstByStart(events) ==
    CHOOSE e \in events : \A f \in events : e.start <= f.start

(***************************************************************************)
(* Notification clients.                                                   *)
(***************************************************************************)
\* NOTIFY_EMAIL_TO
DefaultRecipient == "notify@school.edu"

\* SMTPSender.send_email: `to or self.default_recipient`; the result is success or
\* failure (ok), never an exception.
send_email(out, subject, body, to, ok) ==
    Append(out, [subject |-> subject, body |-> body,
                 to |-> IF to # None THEN to ELSE DefaultRecipient, ok |-> ok])

\* SMTPSender.send_conflict_notification
send_conflict_notification(out, proposed_event, found, ok) ==
    send_email(out, "[TA] Calendar Conflict Detected",
               [proposed |-> proposed_event, conflicts |-> {c.summary : c \in found}],
               None, ok)

\* crew.run_quick_check(schedule, nudges): the composer's text, known by its inputs.
run_quick_check(schedule, pending) ==
    [schedule |-> {e.summary : e \in schedule},
     reminders |-> [i \in 1..Len(pending) |-> pending[i].content]]

(***************************************************************************)
(* run_email_ingest (main.py:128-296), one action per step of the loop     *)
(* body.  pc[r]:                                                            *)
(*   idle      not started                                                  *)
(*   dedup     at `if db.is_email_processed(message_id)` for Head(todo[r])  *)
(*   exec      inside the try, at the dispatch on cmd_type                  *)
(*   insert    inside create_event, conflict read done, before the insert   *)
(*   conflict  create_milestone returned success False                      *)
(*   log       at db.log_email_ingest(status="processed"), inside the try   *)
(*   handler   in `except Exception as e`, at db.log_email_ingest("error")  *)
(*   done      the loop ended                                               *)
(*   aborted   an exception left run_email_ingest                           *)
(*   killed    the process was interrupted from outside                     *)
(***************************************************************************)
Ended == {"done", "aborted", "killed"}
Active(r) == pc[r] \notin Ended \cup {"idle"}

Configs == [calendar : BOOLEAN, smtp : BOOLEAN, sms : BOOLEAN]

Cur(r) == Head(todo[r])
Cmd(r) == Cur(r).command

\* The for loop moves to the next element of `emails`, or ends.
Advance(r) ==
    /\ todo' = [todo EXCEPT ![r] = Tail(@)]
    /\ pc' = [pc EXCEPT ![r] = IF Tail(todo[r]) = <<>> THEN "done" ELSE "dedup"]

Goto(r, label) == pc' = [pc EXCEPT ![r] = label]

\* `except Exception as e` is entered with str(e).
Catch(r, e) ==
    /\ pc' = [pc EXCEPT ![r] = "handler"]
    /\ err' = [err EXCEPT ![r] = e]

Effect(r) == execs' = [execs EXCEPT ![Cur(r).message_id] = @ + 1]

\* Lines 157-184: the clients are built (a constructor that raises leaves None: cfg
\* says which do) and the unread trigger emails are fetched.
Begin(r) ==
    \E b \in Batches(MaxDelivered - delivered) :
        /\ todo' = [todo EXCEPT ![r] = b]
        /\ delivered' = delivered + Len(b)
        /\ pc' = [pc EXCEPT ![r] = IF b = <<>> THEN "done" ELSE "dedup"]
        /\ UNCHANGED <<store, calendar, emails, smsOut, cfg, conflicts, err, execs,
                       transport, briefing, conn, fetched, helper, inbox>>

\* A run started when no other run is in progress.
StartRun(r) ==
    /\ pc[r] = "idle"
    /\ r = "r2" => pc["r1"] # "idle"
    /\ \A q \in Runs : ~Active(q)
    /\ Begin(r)

\* Mutant of Dedup: the command is executed whatever the ledger says.
Dedup_always_executes(r) ==
    /\ pc[r] = "dedup"
    /\ Goto(r, "exec")
    /\ UNCHANGED <<store, calendar, emails, smsOut, todo, cfg, delivered, conflicts, err, execs, transport, briefing, conn, fetched, helper, inbox>>

\* Lines 196-199.
Dedup(r) ==
    /\ pc[r] = "dedup"
    /\ IF is_email_processed(ledger, Cur(r).message_id)
       THEN Advance(r)
       ELSE Goto(r, "exec") /\ UNCHANGED todo
    /\ UNCHANGED <<store, calendar, emails, smsOut, cfg, delivered, conflicts, err, execs, transport, briefing, conn, fetched, helper, inbox>>

\* Lines 203-213.  due_dt.isoformat() keeps the order of the times.
ExecAddNudge(r) ==
    /\ pc[r] = "exec"
    /\ Cmd(r).type = "add_nudge"
    /\ LET w == add_nudge(nudges, Cmd(r).content,
                          parse_datetime_from_text(Cmd(r).content), "normal", "email")
       IN  /\ nudges' = w.rows
           /\ IF w.ok THEN Goto(r, "log") /\ Effect(r) /\ UNCHANGED err
                      ELSE Catch(r, w.error) /\ UNCHANGED execs
    /\ UNCHANGED <<notes, sent_log, ledger, calendar, emails, smsOut, todo, cfg, delivered,
                   conflicts, transport, briefing, conn, fetched, helper, inbox>>

\* Mutant of ExecAddMilestone: a milestone without a parsed date is booked for now.
ExecAddMilestone_guesses_date(r) ==
    /\ pc[r] = "exec"
    /\ Cmd(r).type = "add_milestone"
    /\ LET parsed == parse_datetime_from_text(Cmd(r).content)
           due_dt == IF parsed = NoDate THEN Now ELSE parsed
       IN  IF cfg.calendar
           THEN LET c == create_event_check(calendar, due_dt, MilestoneEnd(due_dt))
                IN  /\ conflicts' = [conflicts EXCEPT ![r] = c.conflicts]
                    /\ Goto(r, IF c.insert THEN "log" ELSE "conflict")
                    /\ calendar' = IF c.insert
                                   THEN calendar \cup
                                          {EventBody(MilestoneSummary(Cmd(r).content),
                                                     due_dt, MilestoneEnd(due_dt))}
                                   ELSE calendar
           ELSE Goto(r, "log") /\ UNCHANGED <<conflicts, calendar>>
    /\ UNCHANGED <<store, emails, smsOut, todo, cfg, delivered, err, execs, transport, briefing, conn, fetched, helper, inbox>>

\* Lines 215-223 and create_event up to its conflict read (google_calendar.py:227-241).
ExecAddMilestone(r) ==
    /\ pc[r] = "exec"
    /\ Cmd(r).type = "add_milestone"
    /\ LET due_dt == parse_datetime_from_text(Cmd(r).content)
       IN  IF cfg.calendar /\ due_dt # NoDate
           THEN LET c == create_event_check(calendar, due_dt, MilestoneEnd(due_dt))
                IN  /\ conflicts' = [conflicts EXCEPT ![r] = c.conflicts]
                    /\ Goto(r, IF c.insert THEN "insert" ELSE "conflict")
           ELSE Goto(r, "log") /\ UNCHANGED conflicts
    /\ UNCHANGED <<store, calendar, emails, smsOut, todo, cfg, delivered, err, execs, transport, briefing, conn, fetched, helper, inbox>>

\* google_calendar.py:243-267: events().insert, then result["success"] is True.
InsertEvent(r) ==
    /\ pc[r] = "insert"
    /\ LET due_dt == parse_datetime_from_text(Cmd(r).content)
       IN  calendar' = calendar \cup
               {EventBody(MilestoneSummary(Cmd(r).content), due_dt, MilestoneEnd(due_dt))}
    /\ Effect(r)
    /\ Goto(r, "log")
    /\ UNCHANGED <<store, emails, smsOut, todo, cfg, delivered, conflicts, err, transport, briefing, conn, fetched, helper, inbox>>

\* Mutant of NotifyConflict: the SMS alert is sent only when there is no email channel.
NotifyConflict_sms_as_fallback(r) ==
    /\ pc[r] = "conflict"
    /\ \E okEmail \in BOOLEAN, okSms \in BOOLEAN :
        /\ emails' = IF cfg.smtp
                     THEN send_conflict_notification(emails, Cmd(r).content,
                                                     conflicts[r], okEmail)
                     ELSE emails
        /\ smsOut' = IF ~cfg.smtp /\ cfg.sms /\ conflicts[r] # {}
                     THEN Append(smsOut, [event |-> Cmd(r).content,
                                          conflict |-> FirstByStart(conflicts[r]).summary,
                                          ok |-> okSms])
                     ELSE smsOut
    /\ IF emails' # emails \/ smsOut' # smsOut THEN Effect(r) ELSE UNCHANGED execs
    /\ Goto(r, "log")
    /\ UNCHANGED <<store, calendar, todo, cfg, delivered, conflicts, err, transport, briefing, conn, fetched, helper, inbox>>

\* Lines 227-242: the conflict is reported by email and SMS.
NotifyConflict(r) ==
    /\ pc[r] = "conflict"
    /\ \E okEmail \in BOOLEAN, okSms \in BOOLEAN :
        /\ emails' = IF cfg.smtp
                     THEN send_conflict_notification(emails, Cmd(r).content,
                                                     conflicts[r], okEmail)
                     ELSE emails
        /\ smsOut' = IF cfg.sms /\ conflicts[r] # {}
                     THEN Append(smsOut, [event |-> Cmd(r).content,
                                          conflict |-> FirstByStart(conflicts[r]).summary,
                                          ok |-> okSms])
                     ELSE smsOut
    /\ IF emails' # emails \/ smsOut' # smsOut THEN Effect(r) ELSE UNCHANGED execs
    /\ Goto(r, "log")
    /\ UNCHANGED <<store, calendar, todo, cfg, delivered, conflicts, err, transport, briefing, conn, fetched, helper, inbox>>

\* Mutant of ExecNote: the note is stored with the source column's default.
ExecNote_source_default(r) ==
    /\ pc[r] = "exec"
    /\ Cmd(r).type = "note"
    /\ LET w == add_note(notes, Cmd(r).content, None, "manual")
       IN  /\ notes' = w.rows
           /\ IF w.ok THEN Goto(r, "log") /\ Effect(r) /\ UNCHANGED err
                      ELSE Catch(r, w.error) /\ UNCHANGED execs
    /\ UNCHANGED <<nudges, sent_log, ledger, calendar, emails, smsOut, todo, cfg, delivered,
                   conflicts, transport, briefing, conn, fetched, helper, inbox>>

\* Lines 246-248.
ExecNote(r) ==
    /\ pc[r] = "exec"
    /\ Cmd(r).type = "note"
    /\ LET w == add_note(notes, Cmd(r).content, None, "email")
       IN  /\ notes' = w.rows
           /\ IF w.ok THEN Goto(r, "log") /\ Effect(r) /\ UNCHANGED err
                      ELSE Catch(r, w.error) /\ UNCHANGED execs
    /\ UNCHANGED <<nudges, sent_log, ledger, calendar, emails, smsOut, todo, cfg, delivered,
                   conflicts, transport, briefing, conn, fetched, helper, inbox>>

\* Mutant of ExecToday: a send that returns failure raises instead.
ExecToday_failed_send_raises(r) ==
    /\ pc[r] = "exec"
    /\ Cmd(r).type = "today"
    /\ LET schedule == IF cfg.calendar THEN get_teaching_schedule(calendar) ELSE {}
           response == run_quick_check(schedule, get_pending_nudges(nudges, TRUE))
       IN  IF cfg.smtp
           THEN \E ok \in BOOLEAN :
                    /\ emails' = send_email(emails, "[TA] Today's Status", response,
                                            Cur(r).sender, ok)
                    /\ Effect(r)
                    /\ IF ok THEN Goto(r, "log") /\ UNCHANGED err
                             ELSE Catch(r, "send failed")
           ELSE Goto(r, "log") /\ UNCHANGED <<emails, execs, err>>
    /\ UNCHANGED <<store, calendar, smsOut, todo, cfg, delivered, conflicts, transport, briefing, conn, fetched, helper, inbox>>

\* Lines 250-267.
ExecToday(r) ==
    /\ pc[r] = "exec"
    /\ Cmd(r).type = "today"
    /\ LET schedule == IF cfg.calendar THEN get_teaching_schedule(calendar) ELSE {}
           response == run_quick_check(schedule, get_pending_nudges(nudges, TRUE))
       IN  IF cfg.smtp
           THEN /\ \E ok \in BOOLEAN :
                      emails' = send_email(emails, "[TA] Today's Status", response,
                                           Cur(r).sender, ok)
                /\ Effect(r)
           ELSE UNCHANGED <<emails, execs>>
    /\ Goto(r, "log")
    /\ UNCHANGED <<store, calendar, smsOut, todo, cfg, delivered, conflicts, err, transport, briefing, conn, fetched, helper, inbox>>

\* Mutant of ExecUnknown: the text of an unknown command is kept as a note.
ExecUnknown_keeps_note(r) ==
    /\ pc[r] = "exec"
    /\ Cmd(r).type \notin {"add_nudge", "add_milestone", "note", "today"}
    /\ notes' = add_note(notes, Cur(r).subject, None, "email").rows
    /\ Goto(r, "log")
    /\ UNCHANGED <<nudges, sent_log, ledger, calendar, emails, smsOut, todo, cfg, delivered,
                   conflicts, err, execs, transport, briefing, conn, fetched, helper, inbox>>

\* Lines 269-270.
ExecUnknown(r) ==
    /\ pc[r] = "exec"
    /\ Cmd(r).type \notin {"add_nudge", "add_milestone", "note", "today"}
    /\ Goto(r, "log")
    /\ UNCHANGED <<store, calendar, emails, smsOut, todo, cfg, delivered, conflicts, err, execs,
                   transport, briefing, conn, fetched, helper, inbox>>

\* A calendar API call raises (events().list in check_conflict or get_today_events,
\* events().insert): the exception is caught at line 282.
CalendarRaises(r) ==
    /\ \/ pc[r] = "insert"
       \/ /\ pc[r] = "exec"
          /\ cfg.calendar
          /\ \/ Cmd(r).type = "today"
             \/ /\ Cmd(r).type = "add_milestone"
                /\ parse_datetime_from_text(Cmd(r).content) # NoDate
    /\ Catch(r, "HttpError")
    /\ UNCHANGED <<store, calendar, emails, smsOut, todo, cfg, delivered, conflicts, execs, transport, briefing, conn, fetched, helper, inbox>>

\* crew.run_quick_check raises (the LLM call fails): caught at line 282.
ComposerRaises(r) ==
    /\ pc[r] = "exec"
    /\ Cmd(r).type = "today"
    /\ Catch(r, "composer failed")
    /\ UNCHANGED <<store, calendar, emails, smsOut, todo, cfg, delivered, conflicts, execs, transport, briefing, conn, fetched, helper, inbox>>

\* The ledger write of a message: log_email_ingest with the message's fields.
LogIngest(r, status, error_message) ==
    log_email_ingest(ledger, Cur(r).message_id, Cur(r).subject, Cur(r).sender,
                     Cmd(r).type, Cmd(r).content, status, error_message)

\* Lines 272-280: the last statement of the try block.
LogProcessed(r) ==
    /\ pc[r] = "log"
    /\ LET w == LogIngest(r, "processed", None)
       IN  /\ ledger' = w.rows
           /\ IF w.ok THEN Advance(r) /\ UNCHANGED err
                      ELSE Catch(r, w.error) /\ UNCHANGED todo
    /\ UNCHANGED <<nudges, notes, sent_log, calendar, emails, smsOut, cfg, delivered, conflicts,
                   execs, transport, briefing, conn, fetched, helper, inbox>>

\* Mutant of LogError: the handler logs the message as "processed".
LogError_status_processed(r) ==
    /\ pc[r] = "handler"
    /\ LET w == LogIngest(r, "processed", err[r])
       IN  /\ ledger' = w.rows
           /\ IF w.ok THEN Advance(r) ELSE Goto(r, "aborted") /\ UNCHANGED todo
    /\ err' = [err EXCEPT ![r] = None]
    /\ UNCHANGED <<nudges, notes, sent_log, calendar, emails, smsOut, cfg, delivered,
                   conflicts, execs, transport, briefing, conn, fetched, helper, inbox>>

\* Lines 282-292: the handler's own ledger write is not inside any try, so when it
\* raises the exception leaves the loop and the function.
LogError(r) ==
    /\ pc[r] = "handler"
    /\ LET w == LogIngest(r, "error", err[r])
       IN  /\ ledger' = w.rows
           /\ IF w.ok THEN Advance(r) ELSE Goto(r, "aborted") /\ UNCHANGED todo
    /\ err' = [err EXCEPT ![r] = None]
    /\ UNCHANGED <<nudges, notes, sent_log, calendar, emails, smsOut, cfg, delivered, conflicts,
                   execs, transport, briefing, conn, fetched, helper, inbox>>

Step(r) ==
    \/ StartRun(r)
    \/ Dedup(r)
    \/ ExecAddNudge(r)
    \/ ExecAddMilestone(r)
    \/ InsertEvent(r)
    \/ NotifyConflict(r)
    \/ ExecNote(r)
    \/ ExecToday(r)
    \/ ExecUnknown(r)
    \/ CalendarRaises(r)
    \/ ComposerRaises(r)
    \/ LogProcessed(r)
    \/ LogError(r)

\* Empty tables, idle runs, and one of the calendars of cals.
InitOn(cals) ==
    /\ nudges = <<>>
    /\ notes = <<>>
    /\ sent_log = <<>>
    /\ ledger = <<>>
    /\ calendar \in cals
    /\ emails = <<>>
    /\ smsOut = <<>>
    /\ pc = [r \in Runs |-> "idle"]
    /\ todo = [r \in Runs |-> <<>>]
    /\ cfg \in Configs
    /\ delivered = 0
    /\ conflicts = [r \in Runs |-> {}]
    /\ err = [r \in Runs |-> None]
    /\ execs = [id \in MessageIds |-> 0]
    /\ transport = <<>>
    /\ briefing = [pc |-> "idle", error |-> None, schedule |-> {}, milestones |-> {},
                   pending |-> <<>>]
    /\ conn = [pc |-> "idle", call |-> [op |-> None], error |-> None, commits |-> 0,
               calls |-> 0,
               work |-> [nudges |-> <<>>, notes |-> <<>>, sent_log |-> <<>>,
                         ledger |-> <<>>],
               before |-> [nudges |-> <<>>, notes |-> <<>>, sent_log |-> <<>>,
                           ledger |-> <<>>]]
    /\ fetched = [n |-> 0, include_future |-> TRUE, rows |-> <<>>]
    /\ helper = [n |-> 0, call |-> None, message |-> <<>>]
    /\ inbox = [folder |-> <<>>, arrived |-> {}]

Init == InitOn(InitialCalendars)

Next == \E r \in Runs : Step(r)

\* Runs that follow one another, on a store that does not fail.
Spec == Init /\ [][Next]_vars

\* Runs that follow one another on a calendar that holds an evening event of today,
\* alone or with a morning class.
SpecEvening == InitOn({{Conference}, {Robotics, Conference}}) /\ [][Next]_vars

(***************************************************************************)
(* The environments of the other specifications: a store whose writes can  *)
(* fail, a process that can be stopped, and runs that overlap.             *)
(***************************************************************************)
\* The INSERT the run is about to make raises sqlite3.OperationalError (database
\* locked, disk full): add_nudge or add_note in the branch, log_email_ingest in the
\* try block, log_email_ingest in the handler.  _get_connection rolls back.
StoreWriteFails(r) ==
    /\ \/ pc[r] = "exec" /\ Cmd(r).type \in {"add_nudge", "note"}
       \/ pc[r] \in {"log", "handler"}
    /\ IF pc[r] = "handler"
       THEN Goto(r, "aborted") /\ err' = [err EXCEPT ![r] = None]
       ELSE Catch(r, "OperationalError")
    /\ UNCHANGED <<store, calendar, emails, smsOut, todo, cfg, delivered, conflicts,
                   execs, transport, briefing, conn, fetched, helper, inbox>>

\* The process is interrupted from outside (KeyboardInterrupt, kill, power loss).
Interrupt(r) ==
    /\ Active(r)
    /\ Goto(r, "killed")
    /\ err' = [err EXCEPT ![r] = None]
    /\ UNCHANGED <<store, calendar, emails, smsOut, todo, cfg, delivered, conflicts,
                   execs, transport, briefing, conn, fetched, helper, inbox>>

\* The scheduler starts a run while another one is still in progress.
StartOverlapping(r) ==
    /\ pc[r] = "idle"
    /\ \E q \in Runs : Active(q)
    /\ Begin(r)

NextFault == Next \/ \E r \in Runs : StoreWriteFails(r)
NextCrash == Next \/ \E r \in Runs : Interrupt(r)
NextOverlap == Next \/ \E r \in Runs : StartOverlapping(r)

\* Runs on a store whose writes can fail.
SpecFault == Init /\ [][NextFault]_vars
\* Runs that can be interrupted, with the unlogged messages delivered again.
SpecCrash == Init /\ [][NextCrash]_vars
\* Runs that can overlap.
SpecOverlap == Init /\ [][NextOverlap]_vars

(***************************************************************************)
(* The store's reminder operations called directly (database/db.py).       *)
(***************************************************************************)
\* Reminder rows the direct calls may create.
MaxNudges == 2

ingestVars == <<pc, todo, cfg, delivered, conflicts, err, execs>>
outside == <<calendar, emails, smsOut, transport, briefing, conn, fetched, helper, inbox>>

CallAddNudge ==
    /\ Len(nudges) < MaxNudges
    /\ \E content \in {"grade quizzes", "call parent"},
          due \in {NoDate, Feb5_4pm},
          priority \in {"normal", "urgent"} :
         nudges' = add_nudge(nudges, content, due, priority, "manual").rows
    /\ UNCHANGED <<notes, sent_log, ledger, ingestVars, outside>>

CallMarkNudgeSent ==
    /\ \E nudge_id \in 1..Len(nudges) : nudges' = mark_nudge_sent(nudges, nudge_id)
    /\ UNCHANGED <<notes, sent_log, ledger, ingestVars, outside>>

CallCompleteNudge ==
    /\ \E nudge_id \in 1..Len(nudges) : nudges' = complete_nudge(nudges, nudge_id)
    /\ UNCHANGED <<notes, sent_log, ledger, ingestVars, outside>>

NextStore == CallAddNudge \/ CallMarkNudgeSent \/ CallCompleteNudge

\* Any sequence of add_nudge, mark_nudge_sent and complete_nudge calls.
SpecStore == Init /\ [][NextStore]_vars

(***************************************************************************)
(* The Twilio SMS client (integrations/twilio_sms.py).  A text is a        *)
(* sequence of characters.                                                  *)
(***************************************************************************)
SMS_LIMIT == 160

\* Longest text given to the client, and SMS calls made.
MaxTextLen == 200
MaxSent == 1

Alphabet == <<"a", "b", "c", "d", "e", "f", "g">>
Text(n) == [i \in 1..n |-> Alphabet[(i % Len(Alphabet)) + 1]]
TextLengths == {0, 1, 20, 21, 30, 31, 40, 41, 152, 153, 157, 160, 161, MaxTextLen}
Texts == {Text(n) : n \in TextLengths}

\* s[:k]
Prefix(s, k) == SubSeq(s, 1, IF k < Len(s) THEN k ELSE Len(s))

\* str(n) of a natural number
RECURSIVE Str(_)
Str(n) ==
    LET digit == <<"0", "1", "2", "3", "4", "5", "6", "7", "8", "9">>[(n % 10) + 1]
    IN  IF n < 10 THEN <<digit>> ELSE Str(n \div 10) \o <<digit>>

\* sep.join(parts)
RECURSIVE Join(_, _)
Join(sep, parts) ==
    IF parts = <<>> THEN <<>>
    ELSE IF Len(parts) = 1 THEN parts[1]
    ELSE parts[1] \o sep \o Join(sep, Tail(parts))

\* Mutant of Truncate: the message is cut at the limit, without the ellipsis.
Truncate_hard_cut(message) ==
    Prefix(message, SMS_LIMIT)

\* if len(message) > self.SMS_LIMIT: message = message[:self.SMS_LIMIT - 3] + "..."
Truncate(message) ==
    IF Len(message) > SMS_LIMIT
    THEN Prefix(message, SMS_LIMIT - 3) \o <<".", ".", ".">>
    ELSE message

\* send_sms: with no recipient nothing is sent; otherwise the message goes to
\* client.messages.create as it is.
send_sms(sent, message, to) ==
    IF to = None THEN sent ELSE Append(sent, message)

\* message = f"{prefix}{content}"
NudgeMessage(nudge) ==
    LET prefix == IF nudge.priority \in {"high", "urgent"}
                  THEN <<"U", "R", "G", "E", "N", "T", ":", " ">> ELSE <<>>
    IN  prefix \o nudge.content

send_nudge_reminder(sent, nudge, to) ==
    send_sms(sent, Truncate(NudgeMessage(nudge)), to)

\* message = f"CONFLICT: '{event[:30]}' conflicts with '{conflict[:30]}'. Check email."
ConflictMessage(event, conflict) ==
    <<"C", "O", "N", "F", "L", "I", "C", "T", ":", " ", "'">>
        \o Prefix(event, 30)
        \o <<"'", " ", "c", "o", "n", "f", "l", "i", "c", "t", "s", " ",
             "w", "i", "t", "h", " ", "'">>
        \o Prefix(conflict, 30)
        \o <<"'", ".", " ", "C", "h", "e", "c", "k", " ", "e", "m", "a", "i", "l", ".">>

send_conflict_alert(sent, event, conflict, to) ==
    send_sms(sent, Truncate(ConflictMessage(event, conflict)), to)

\* message = " | ".join(lines)
SummaryMessage(schedule, milestones, pending) ==
    LET urgent == SelectSeq(pending, LAMBDA n : n.priority \in {"high", "urgent"})
        today == IF schedule = <<>> THEN <<>>
                 ELSE << <<"T", "o", "d", "a", "y", ":", " ">> \o Str(Len(schedule))
                         \o <<" ", "c", "l", "a", "s", "s", "e", "s", ",", " ", "s", "t",
                              "a", "r", "t", "s", " ">>
                         \o Prefix(schedule[1].summary, 20) >>
        first == IF urgent = <<>> THEN <<>>
                 ELSE << <<"U", "R", "G", "E", "N", "T", ":", " ">>
                         \o Prefix(urgent[1].content, 40) >>
        soon == IF milestones = <<>> THEN <<>>
                ELSE << <<"D", "u", "e", " ", "s", "o", "o", "n", ":", " ">>
                        \o Prefix(milestones[1].summary, 30) >>
    IN  Join(<<" ", "|", " ">>, today \o first \o soon)

send_daily_summary(sent, schedule, milestones, pending, to) ==
    send_sms(sent, Truncate(SummaryMessage(schedule, milestones, pending)), to)

\* `to or self.to_number`: a number, or none configured and none given.
Recipients == {None, "+15550100"}

CallSendSms ==
    /\ helper.n < MaxSent
    /\ \E message \in Texts, to \in Recipients :
         /\ transport' = send_sms(transport, message, to)
         /\ helper' = [n |-> helper.n + 1, call |-> "send_sms", message |-> message]
    /\ UNCHANGED <<store, ingestVars, calendar, emails, smsOut, briefing, conn, fetched, inbox>>

CallSendNudgeReminder ==
    /\ helper.n < MaxSent
    /\ \E content \in Texts, priority \in {"normal", "urgent"}, to \in Recipients :
         LET nudge == [content |-> content, priority |-> priority]
         IN  /\ transport' = send_nudge_reminder(transport, nudge, to)
             /\ helper' = [n |-> helper.n + 1, call |-> "send_nudge_reminder",
                           message |-> NudgeMessage(nudge)]
    /\ UNCHANGED <<store, ingestVars, calendar, emails, smsOut, briefing, conn, fetched, inbox>>

CallSendConflictAlert ==
    /\ helper.n < MaxSent
    /\ \E event \in Texts, conflict \in Texts, to \in Recipients :
         /\ transport' = send_conflict_alert(transport, event, conflict, to)
         /\ helper' = [n |-> helper.n + 1, call |-> "send_conflict_alert",
                       message |-> ConflictMessage(event, conflict)]
    /\ UNCHANGED <<store, ingestVars, calendar, emails, smsOut, briefing, conn, fetched, inbox>>

CallSendDailySummary ==
    /\ helper.n < MaxSent
    /\ \E t \in Texts, classes \in 0..2, priority \in {"normal", "urgent"},
          due \in BOOLEAN, to \in Recipients :
         LET schedule == [i \in 1..classes |-> [summary |-> t]]
             milestones == IF due THEN <<[summary |-> t]>> ELSE <<>>
             pending == <<[content |-> t, priority |-> priority]>>
         IN  /\ transport' = send_daily_summary(transport, schedule, milestones, pending,
                                                to)
             /\ helper' = [n |-> helper.n + 1, call |-> "send_daily_summary",
                           message |-> SummaryMessage(schedule, milestones, pending)]
    /\ UNCHANGED <<store, ingestVars, calendar, emails, smsOut, briefing, conn, fetched, inbox>>

NextSMS ==
    CallSendSms \/ CallSendNudgeReminder \/ CallSendConflictAlert \/ CallSendDailySummary

\* The SMS client is used with every client configured and an empty calendar.
InitSMS ==
    /\ Init
    /\ cfg = [calendar |-> TRUE, smtp |-> TRUE, sms |-> TRUE]
    /\ calendar = {}

\* Any sequence of calls of the SMS client's four senders.
SpecSMS == InitSMS /\ [][NextSMS]_vars

(***************************************************************************)
(* run_daily_briefing (main.py:27-125), one action per step.               *)
(* briefing.pc:                                                            *)
(*   idle     not started                                                  *)
(*   smtp     at line 57, SMTPSender()                                     *)
(*   sms      at lines 59-63, SMSClient() inside its try                   *)
(*   auth     at lines 66-68, calendar.authenticate()                      *)
(*   gather   at lines 72-75                                               *)
(*   crew     at lines 84-90                                               *)
(*   email    at lines 96-106                                              *)
(*   text     at lines 109-119                                             *)
(*   done     returned                                                     *)
(*   aborted  an exception left run_daily_briefing                         *)
(***************************************************************************)
\* TWILIO_TO
DefaultNumber == "+15550100"

BriefingGoto(label) == briefing' = [briefing EXCEPT !.pc = label]
BriefingAbort(e) == briefing' = [briefing EXCEPT !.pc = "aborted", !.error = e]

\* get_milestones -> get_upcoming_events(14): from now to 14 days on, both sent with "Z".
get_milestones(cal) == EventsList(cal, IsoZ(Now), IsoZ(Now + 14 * DayMinutes))

\* SMTPSender.send_daily_briefing: the HTML built from the gathered data.
send_daily_briefing(out, schedule, milestones, pending, ok) ==
    send_email(out, "Teaching Assistant Daily Briefing",
               [text |-> "html", schedule |-> {e.summary : e \in schedule},
                milestones |-> {e.summary : e \in milestones},
                reminders |-> [i \in 1..Len(pending) |-> pending[i].content]],
               None, ok)

\* Lines 55-56.
BriefingStart ==
    /\ briefing.pc = "idle"
    /\ BriefingGoto("smtp")
    /\ UNCHANGED <<store, ingestVars, calendar, emails, smsOut, transport, conn, fetched, helper, inbox>>

\* Line 57: SMTPSender() is called outside any try; its ValueError on missing
\* SMTP_USER / SMTP_PASS leaves run_daily_briefing.
BriefingSmtp ==
    /\ briefing.pc = "smtp"
    /\ IF cfg.smtp THEN BriefingGoto("sms")
                   ELSE BriefingAbort("SMTP credentials required")
    /\ UNCHANGED <<store, ingestVars, calendar, emails, smsOut, transport, conn, fetched, helper, inbox>>

\* Lines 59-63: ImportError and ValueError of SMSClient() are caught, sms = None.
BriefingSms ==
    /\ briefing.pc = "sms"
    /\ BriefingGoto("auth")
    /\ UNCHANGED <<store, ingestVars, calendar, emails, smsOut, transport, conn, fetched, helper, inbox>>

\* Lines 66-68: calendar.authenticate() outside any try.
BriefingAuth ==
    /\ briefing.pc = "auth"
    /\ IF cfg.calendar THEN BriefingGoto("gather")
                       ELSE BriefingAbort("calendar unavailable")
    /\ UNCHANGED <<store, ingestVars, calendar, emails, smsOut, transport, conn, fetched, helper, inbox>>

\* Lines 72-75.
BriefingGather ==
    /\ briefing.pc = "gather"
    /\ briefing' = [briefing EXCEPT !.pc = "crew",
                                    !.schedule = get_teaching_schedule(calendar),
                                    !.milestones = get_milestones(calendar),
                                    !.pending = get_pending_nudges(nudges, TRUE)]
    /\ UNCHANGED <<store, ingestVars, calendar, emails, smsOut, transport, conn, fetched, helper, inbox>>

\* Lines 84-90: the crew returns its result.
BriefingCrew ==
    /\ briefing.pc = "crew"
    /\ BriefingGoto("email")
    /\ UNCHANGED <<store, ingestVars, calendar, emails, smsOut, transport, conn, fetched, helper, inbox>>

\* Lines 84-90: crew.run_daily_briefing raises (the LLM call fails).
BriefingCrewRaises ==
    /\ briefing.pc = "crew"
    /\ BriefingAbort("crew failed")
    /\ UNCHANGED <<store, ingestVars, calendar, emails, smsOut, transport, conn, fetched, helper, inbox>>

\* Lines 96-106: log_sent is called only when the send succeeded.
BriefingEmail ==
    /\ briefing.pc = "email"
    /\ \E ok \in BOOLEAN :
        /\ emails' = send_daily_briefing(emails, briefing.schedule, briefing.milestones,
                                         briefing.pending, ok)
        /\ sent_log' = IF ok
                       THEN log_sent(sent_log, "email", DefaultRecipient,
                                     "result[email_briefing][:500]",
                                     None, "sent", None).rows
                       ELSE sent_log
    /\ BriefingGoto("text")
    /\ UNCHANGED <<nudges, notes, ledger, ingestVars, calendar, smsOut, transport, conn, fetched, helper, inbox>>

\* Lines 109-119: send_daily_summary when there is an SMS client; log_sent only when
\* the send succeeded.
BriefingText ==
    /\ briefing.pc = "text"
    /\ IF cfg.sms
       THEN \E ok \in BOOLEAN :
               /\ smsOut' = Append(smsOut, [call |-> "send_daily_summary", ok |-> ok])
               /\ sent_log' = IF ok
                              THEN log_sent(sent_log, "sms", DefaultNumber,
                                            "result[sms_summary]",
                                            None, "sent", None).rows
                              ELSE sent_log
       ELSE UNCHANGED <<smsOut, sent_log>>
    /\ BriefingGoto("done")
    /\ UNCHANGED <<nudges, notes, ledger, ingestVars, calendar, emails, transport, conn, fetched, helper, inbox>>

NextDaily ==
    \/ BriefingStart
    \/ BriefingSmtp
    \/ BriefingSms
    \/ BriefingAuth
    \/ BriefingGather
    \/ BriefingCrew
    \/ BriefingCrewRaises
    \/ BriefingEmail
    \/ BriefingText
    \/ CallAddNudge

\* One daily briefing, on a store that reminders are added to.
SpecDaily == Init /\ [][NextDaily]_vars

(***************************************************************************)
(* The command parser (integrations/gmail_imap.py).  A text is a sequence  *)
(* of tokens: a command keyword as it is written in the text, a space, a   *)
(* newline, or another character.                                          *)
(***************************************************************************)
\* Tokens in the subject, and in the body, of a parsed email.
MaxField == 2

Whitespace == {" ", "\n"}
Tokens == {"ADD NUDGE:", "add nudge:", "ADD MILESTONE:", "NOTE:", "TODAY", "w"}
              \cup Whitespace
Fields == UNION {[1..n -> Tokens] : n \in 0..MaxField}

\* Mutant of COMMAND_PATTERNS: the dict with "note" first.
COMMAND_PATTERNS_note_first ==
    << [type |-> "note", keyword |-> {"NOTE:"}, group |-> TRUE],
       [type |-> "add_nudge", keyword |-> {"ADD NUDGE:", "add nudge:"}, group |-> TRUE],
       [type |-> "add_milestone", keyword |-> {"ADD MILESTONE:"}, group |-> TRUE],
       [type |-> "today", keyword |-> {"TODAY"}, group |-> FALSE] >>

\* COMMAND_PATTERNS in the dict's order.  keyword: the tokens the pattern's literal
\* part matches under re.IGNORECASE; group: the pattern ends with \s*(.+).
COMMAND_PATTERNS ==
    << [type |-> "add_nudge", keyword |-> {"ADD NUDGE:", "add nudge:"}, group |-> TRUE],
       [type |-> "add_milestone", keyword |-> {"ADD MILESTONE:"}, group |-> TRUE],
       [type |-> "note", keyword |-> {"NOTE:"}, group |-> TRUE],
       [type |-> "today", keyword |-> {"TODAY"}, group |-> FALSE] >>

\* \s*(.+) after position i: \s* takes the whitespace that follows and gives back as
\* much as (.+) needs to start on a character that is not a newline.  0: no match.
GroupStart(text, i) ==
    LET run == {k \in 0..(Len(text) - i) : \A j \in 1..k : text[i + j] \in Whitespace}
        starts == {i + k + 1 : k \in run} \cap {g \in 1..Len(text) : text[g] # "\n"}
    IN  IF starts = {} THEN 0 ELSE CHOOSE g \in starts : \A h \in starts : h <= g

\* (.+) from position g: up to the end of the line.
Group(text, g) ==
    LET ends == {e \in g..Len(text) : \A j \in g..e : text[j] # "\n"}
    IN  SubSeq(text, g, CHOOSE e \in ends : \A f \in ends : f <= e)

\* pattern.search(text): the leftmost position where the pattern matches, or 0.
Search(pattern, text) ==
    LET at == {i \in 1..Len(text) :
                  /\ text[i] \in pattern.keyword
                  /\ pattern.group => GroupStart(text, i) # 0}
    IN  IF at = {} THEN 0 ELSE CHOOSE i \in at : \A j \in at : i <= j

\* str.strip()
RECURSIVE Strip(_)
Strip(t) ==
    IF t = <<>> THEN t
    ELSE IF Head(t) \in Whitespace THEN Strip(Tail(t))
    ELSE IF t[Len(t)] \in Whitespace THEN Strip(SubSeq(t, 1, Len(t) - 1))
    ELSE t

\* The text of a token sequence.
RECURSIVE Render(_)
Render(t) == IF t = <<>> THEN "" ELSE Head(t) \o Render(Tail(t))

\* Mutant of Group1: match.group(1) is taken whatever match.lastindex is.
Group1_without_lastindex(pattern, text, at) ==
    IF pattern.group
    THEN [raised |-> FALSE,
          content |-> Render(Strip(Group(text, GroupStart(text, at))))]
    ELSE [raised |-> TRUE, content |-> "IndexError"]

\* match.group(1).strip() if match.lastindex else None
Group1(pattern, text, at) ==
    IF pattern.group
    THEN [raised |-> FALSE,
          content |-> Render(Strip(Group(text, GroupStart(text, at))))]
    ELSE [raised |-> FALSE, content |-> None]

\* _parse_command: the patterns are tried in the dict's order on
\* f"{subject} {body}"; raised says whether an exception leaves the function.
parse_command(subject, body) ==
    LET text_to_check == subject \o <<" ">> \o body
        hits == {k \in 1..Len(COMMAND_PATTERNS) :
                    Search(COMMAND_PATTERNS[k], text_to_check) # 0}
    IN  IF hits = {}
        THEN [raised |-> FALSE, type |-> "unknown", content |-> None]
        ELSE LET k == CHOOSE h \in hits : \A g \in hits : h <= g
                 pattern == COMMAND_PATTERNS[k]
                 g1 == Group1(pattern, text_to_check, Search(pattern, text_to_check))
             IN  [raised |-> g1.raised, type |-> pattern.type, content |-> g1.content]

\* get_unread_triggers lines 108-117 for one unread email whose subject and body are
\* any fields: the command is attached, or the exception is printed and the email left
\* out.  Then the run starts on what was returned.
FetchParsed ==
    /\ pc["r1"] = "idle"
    /\ \E subject \in Fields, body \in Fields :
         LET c == parse_command(subject, body)
         IN  IF c.raised
             THEN /\ todo' = [todo EXCEPT !["r1"] = <<>>]
                  /\ pc' = [pc EXCEPT !["r1"] = "done"]
             ELSE /\ todo' = [todo EXCEPT !["r1"] =
                                 << [message_id |-> "m1", subject |-> subject,
                                     body |-> body, sender |-> "teacher@school.edu",
                                     command |-> [type |-> c.type,
                                                  content |-> c.content]] >>]
                  /\ pc' = [pc EXCEPT !["r1"] = "dedup"]
    /\ delivered' = delivered + 1
    /\ UNCHANGED <<store, calendar, emails, smsOut, cfg, conflicts, err, execs,
                   transport, briefing, conn, fetched, helper, inbox>>

InitParse ==
    /\ Init
    /\ cfg = [calendar |-> TRUE, smtp |-> TRUE, sms |-> TRUE]
    /\ calendar = {}

NextParse ==
    \/ FetchParsed
    \/ \E r \in Runs :
         \/ Dedup(r)
         \/ ExecAddNudge(r)
         \/ ExecAddMilestone(r)
         \/ ExecNote(r)
         \/ ExecToday(r)
         \/ ExecUnknown(r)
         \/ ComposerRaises(r)
         \/ LogProcessed(r)
         \/ LogError(r)

\* One run on one email with any subject and body, parsed by _parse_command.
SpecParse == InitParse /\ [][NextParse]_vars

(***************************************************************************)
(* Due times of "tomorrow" commands (parse_datetime_from_text,             *)
(* gmail_imap.py:287-307).  A text is a sequence of tokens: a digit, ":",  *)
(* a space, "am", "pm", "tomorrow", or a run of other characters that has  *)
(* no digit and does not begin with am or pm.                              *)
(***************************************************************************)
Digits == <<"0", "1", "2", "3", "4", "5", "6", "7", "8", "9">>
IsDigit(tok) == \E n \in 1..Len(Digits) : Digits[n] = tok
\* int() of one digit
DigitValue(tok) == (CHOOSE n \in 1..Len(Digits) : Digits[n] = tok) - 1

\* text.lower(), as far as the matching sees it
Lower(text) ==
    [i \in 1..Len(text) |->
        CASE text[i] = "Tomorrow" -> "tomorrow"
          [] text[i] = "AM" -> "am"
          [] text[i] = "PM" -> "pm"
          [] OTHER -> text[i]]

\* re.search(r"(\d{1,2}):?(\d{2})?\s*(am|pm)?", text_lower): the leftmost match
\* starts at the first digit of the text; every part after group 1 is optional and
\* greedy, so the match never backtracks.
TimeMatch(t) ==
    LET digitAt(k) == k <= Len(t) /\ IsDigit(t[k])
        starts == {i \in 1..Len(t) : digitAt(i)}
    IN  IF starts = {}
        THEN [found |-> FALSE, hour |-> 0, minute |-> 0, period |-> None]
        ELSE LET i == CHOOSE i \in starts : \A q \in starts : i <= q
                 two == digitAt(i + 1)
                 j == IF two THEN i + 2 ELSE i + 1
                 k == IF j <= Len(t) /\ t[j] = ":" THEN j + 1 ELSE j
                 mm == digitAt(k) /\ digitAt(k + 1)
                 l == IF mm THEN k + 2 ELSE k
                 m == CHOOSE m \in l..(Len(t) + 1) :
                        /\ \A q \in l..(m - 1) : t[q] \in Whitespace
                        /\ m = Len(t) + 1 \/ t[m] \notin Whitespace
             IN  [found |-> TRUE,
                  hour |-> IF two THEN 10 * DigitValue(t[i]) + DigitValue(t[i + 1]) ELSE DigitValue(t[i]),
                  minute |-> IF mm THEN 10 * DigitValue(t[k]) + DigitValue(t[k + 1]) ELSE 0,
                  period |-> IF m <= Len(t) /\ t[m] \in {"am", "pm"} THEN t[m] ELSE None]

\* base_date.replace(hour=, minute=, second=0, microsecond=0); the ValueError of an
\* hour over 23 or a minute over 59 is swallowed by `except Exception: return None`.
Replace(base_date, hour, minute) ==
    IF hour > 23 \/ minute > 59 THEN NoDate
    ELSE (base_date - (base_date % DayMinutes)) + hour * HourMinutes + minute

\* parse_datetime_from_text on a text with "tomorrow" in it (lines 287-307).
parse_datetime_tomorrow(text) ==
    LET time_match == TimeMatch(Lower(text))
        base_date == Now + DayMinutes
        hour == IF time_match.period = "pm" /\ time_match.hour < 12
                THEN time_match.hour + 12
                ELSE IF time_match.period = "am" /\ time_match.hour = 12 THEN 0
                ELSE time_match.hour
    IN  IF time_match.found THEN Replace(base_date, hour, time_match.minute)
                            ELSE Replace(base_date, 9, 0)

\* Clock times as they are written in a command, with the hour, minute and period
\* that are written; `none` is a command without a clock time.
Clock(written, hour, minute, period) ==
    [written |-> written, hour |-> hour, minute |-> minute, period |-> period]
Clocks ==
    { Clock(<<>>, 0, 0, "none"),
      Clock(<<"7">>, 7, 0, None),
      Clock(<<"1", "9">>, 19, 0, None),
      Clock(<<"7", ":", "1", "5">>, 7, 15, None),
      Clock(<<"7", "am">>, 7, 0, "am"),
      Clock(<<"1", "2", "am">>, 12, 0, "am"),
      Clock(<<"1", "2", "pm">>, 12, 0, "pm"),
      Clock(<<"4", " ", "PM">>, 4, 0, "pm"),
      Clock(<<"1", "1", "pm">>, 11, 0, "pm"),
      Clock(<<"7", ":", "1", "5", "am">>, 7, 15, "am"),
      Clock(<<"4", ":", "3", "0", "pm">>, 4, 30, "pm"),
      Clock(<<"2", "5">>, 25, 0, None),
      Clock(<<"7", ":", "7", "5">>, 7, 75, None) }

\* What the command says before its date: plain words, or words with a digit.
Subjects == { <<"Print rubrics ">>, <<"Print CO", "2", " car rubrics ">> }

\* The contents of ADD NUDGE commands with "tomorrow".
TomorrowCommands == [subject : Subjects, clock : Clocks, dayFirst : BOOLEAN]
Content(c) ==
    c.subject \o
        (IF c.dayFirst
         THEN <<"tomorrow">> \o (IF c.clock.written = <<>> THEN <<>> ELSE <<" at ">>)
                  \o c.clock.written
         ELSE c.clock.written \o (IF c.clock.written = <<>> THEN <<>> ELSE <<" ">>)
                  \o <<"Tomorrow">>)

\* main.py:203-213 for an ADD NUDGE command with "tomorrow".
IngestTomorrowNudge ==
    /\ Len(nudges) < MaxNudges
    /\ \E c \in TomorrowCommands :
         nudges' = add_nudge(nudges, Render(Content(c)),
                             parse_datetime_tomorrow(Content(c)), "normal", "email").rows
    /\ UNCHANGED <<notes, sent_log, ledger, ingestVars, outside>>

\* ADD NUDGE commands with "tomorrow", ingested one after another.
SpecDue == InitParse /\ [][IngestTomorrowNudge]_vars

(***************************************************************************)
(* Sessions of the real IMAP client (gmail_imap.py:82-162): each run        *)
(* searches UNSEEN in the folder and fetches the hits by sequence number.   *)
(***************************************************************************)
\* _fetch_email: msg.get("Message-ID", str(email_id)), with the command that
\* _parse_command attaches.
fetch_email(email_id, letter) ==
    Email(IF letter.header # None THEN letter.header ELSE SequenceKey(email_id),
          letter.subject, "note", letter.content)

\* A new trigger email is delivered: it takes the next sequence number.
Arrive ==
    /\ \E l \in Letters \ inbox.arrived :
         inbox' = [folder |-> Append(inbox.folder, [letter |-> l, seen |-> FALSE]),
                   arrived |-> inbox.arrived \cup {l}]
    /\ UNCHANGED <<store, ingestVars, calendar, emails, smsOut, transport, briefing, conn,
                   fetched, helper>>

\* The teacher deletes a message that was read (or archives it out of the label); the
\* messages after it move down one sequence number.
Expunge ==
    /\ \A r \in Runs : ~Active(r)
    /\ \E i \in 1..Len(inbox.folder) :
         /\ inbox.folder[i].seen
         /\ inbox' = [inbox EXCEPT !.folder = SubSeq(@, 1, i - 1) \o SubSeq(@, i + 1, Len(@))]
    /\ UNCHANGED <<store, ingestVars, calendar, emails, smsOut, transport, briefing, conn,
                   fetched, helper>>

\* The UNSEEN messages of the folder, fetched in sequence order.
RECURSIVE Unseen(_, _)
Unseen(folder, from) ==
    IF from > Len(folder) THEN <<>>
    ELSE (IF folder[from].seen THEN <<>> ELSE <<fetch_email(from, folder[from].letter)>>)
             \o Unseen(folder, from + 1)

\* get_unread_triggers of GmailIMAPClient; fetching RFC822 sets \Seen.
StartSession(r) ==
    /\ pc[r] = "idle"
    /\ r = "r2" => pc["r1"] # "idle"
    /\ \A q \in Runs : ~Active(q)
    /\ LET b == Unseen(inbox.folder, 1)
       IN  /\ todo' = [todo EXCEPT ![r] = b]
           /\ pc' = [pc EXCEPT ![r] = IF b = <<>> THEN "done" ELSE "dedup"]
    /\ inbox' = [inbox EXCEPT !.folder = [i \in 1..Len(@) |-> [@[i] EXCEPT !.seen = TRUE]]]
    /\ UNCHANGED <<store, calendar, emails, smsOut, cfg, delivered, conflicts, err, execs,
                   transport, briefing, conn, fetched, helper>>

NextSession ==
    \/ Arrive
    \/ Expunge
    \/ \E r \in Runs : StartSession(r) \/ Dedup(r) \/ ExecNote(r) \/ LogProcessed(r)

\* Runs of the ingest against a folder that messages arrive in and are deleted from.
SpecSession == InitParse /\ [][NextSession]_vars

(***************************************************************************)
(* A store write inside _get_connection (db.py:26-38), one action per step.*)
(* conn.pc:                                                                *)
(*   idle      no operation in progress                                    *)
(*   body      connected, inside `with`, before cursor.execute             *)
(*   commit    the body ended, at conn.commit()                            *)
(*   except    in `except Exception`, before conn.rollback()               *)
(*   returned  committed and closed, the operation returned                *)
(*   raised    rolled back and closed, the exception is with the caller    *)
(* conn.work is what the connection sees: the tables with its uncommitted  *)
(* statement; conn.before and conn.commits are history.                    *)
(***************************************************************************)
\* Store operations called one after another.
MaxCalls == 2

Tables == [nudges |-> nudges, notes |-> notes, sent_log |-> sent_log, ledger |-> ledger]

\* The write operations with arguments the tables accept and arguments they reject.
Calls ==
    [op : {"add_nudge"}, content : {"call parent", None}, priority : {"normal", "asap"}]
        \cup [op : {"add_note"}, content : {"lab went long", None}]
        \cup [op : {"log_sent"}, channel : {"email", "fax"}]
        \cup [op : {"log_email_ingest"}, message_id : {"m1", "m2"},
              status : {"processed", "error"}]
        \cup [op : {"mark_nudge_sent", "complete_nudge"}, nudge_id : {1, 2}]

\* The one statement of the operation's body, executed on the tables t.
Statement(call, t) ==
    LET On(field, w) ==
            [ok |-> w.ok, error |-> w.error, tables |-> [t EXCEPT ![field] = w.rows]]
    IN  CASE call.op = "add_nudge" ->
                On("nudges", add_nudge(t.nudges, call.content, NoDate, call.priority,
                                       "manual"))
          [] call.op = "add_note" ->
                On("notes", add_note(t.notes, call.content, None, "manual"))
          [] call.op = "log_sent" ->
                On("sent_log", log_sent(t.sent_log, call.channel, DefaultRecipient,
                                        "briefing", None, "sent", None))
          [] call.op = "log_email_ingest" ->
                On("ledger", log_email_ingest(t.ledger, call.message_id, "TODAY?",
                                              "teacher@school.edu", "today", None,
                                              call.status, None))
          [] call.op = "mark_nudge_sent" ->
                On("nudges", Committed(mark_nudge_sent(t.nudges, call.nudge_id)))
          [] call.op = "complete_nudge" ->
                On("nudges", Committed(complete_nudge(t.nudges, call.nudge_id)))

\* sqlite3.connect, entering the with block.
TxnOpen ==
    /\ conn.pc = "idle"
    /\ conn.calls < MaxCalls
    /\ \E call \in Calls :
         conn' = [pc |-> "body", call |-> call, error |-> None, commits |-> 0,
                  calls |-> conn.calls + 1, work |-> Tables, before |-> Tables]
    /\ UNCHANGED <<store, ingestVars, calendar, emails, smsOut, transport, briefing, fetched, helper, inbox>>

\* Mutant of TxnExecute: the statement is written through to the tables at once.
TxnExecute_autocommit ==
    /\ conn.pc = "body"
    /\ LET w == Statement(conn.call, conn.work)
       IN  IF w.ok
           THEN /\ conn' = [conn EXCEPT !.pc = "commit", !.work = w.tables]
                /\ nudges' = w.tables.nudges
                /\ notes' = w.tables.notes
                /\ sent_log' = w.tables.sent_log
                /\ ledger' = w.tables.ledger
           ELSE /\ conn' = [conn EXCEPT !.pc = "except", !.error = w.error]
                /\ UNCHANGED store
    /\ UNCHANGED <<ingestVars, calendar, emails, smsOut, transport, briefing, fetched, helper, inbox>>

\* cursor.execute: the statement takes effect inside the connection's transaction, or
\* a constraint rejects it.
TxnExecute ==
    /\ conn.pc = "body"
    /\ LET w == Statement(conn.call, conn.work)
       IN  conn' = IF w.ok THEN [conn EXCEPT !.pc = "commit", !.work = w.tables]
                           ELSE [conn EXCEPT !.pc = "except", !.error = w.error]
    /\ UNCHANGED <<store, ingestVars, calendar, emails, smsOut, transport, briefing, fetched, helper, inbox>>

\* cursor.execute or conn.commit raises sqlite3.OperationalError.
TxnStorageRaises ==
    /\ conn.pc \in {"body", "commit"}
    /\ conn' = [conn EXCEPT !.pc = "except", !.error = "OperationalError"]
    /\ UNCHANGED <<store, ingestVars, calendar, emails, smsOut, transport, briefing, fetched, helper, inbox>>

\* conn.commit(), then conn.close() in finally.
TxnCommit ==
    /\ conn.pc = "commit"
    /\ nudges' = conn.work.nudges
    /\ notes' = conn.work.notes
    /\ sent_log' = conn.work.sent_log
    /\ ledger' = conn.work.ledger
    /\ conn' = [conn EXCEPT !.pc = "returned", !.commits = @ + 1]
    /\ UNCHANGED <<ingestVars, calendar, emails, smsOut, transport, briefing, fetched, helper, inbox>>

\* conn.rollback(); raise; conn.close() in finally.
TxnRollback ==
    /\ conn.pc = "except"
    /\ conn' = [conn EXCEPT !.pc = "raised", !.work = Tables]
    /\ UNCHANGED <<store, ingestVars, calendar, emails, smsOut, transport, briefing, fetched, helper, inbox>>

\* The caller goes on.
TxnClose ==
    /\ conn.pc \in {"returned", "raised"}
    /\ conn' = [conn EXCEPT !.pc = "idle"]
    /\ UNCHANGED <<store, ingestVars, calendar, emails, smsOut, transport, briefing, fetched, helper, inbox>>

NextTxn ==
    TxnOpen \/ TxnExecute \/ TxnStorageRaises \/ TxnCommit \/ TxnRollback \/ TxnClose

\* Store write operations called one after another, each inside _get_connection.
SpecTxn == Init /\ [][NextTxn]_vars

(***************************************************************************)
(* Reading the reminders (db.py:132-150) from a table that add_nudge and   *)
(* complete_nudge calls have built.                                        *)
(***************************************************************************)
\* get_pending_nudges calls made.
MaxQueries == 1

\* Due times before, at and after the time of the query, and none.
DueTimes == {NoDate, Now - HourMinutes, Now, Feb5_4pm}

CallAddNudgeDue ==
    /\ Len(nudges) < MaxNudges
    /\ \E due \in DueTimes :
         nudges' = add_nudge(nudges, "grade quizzes", due, "normal", "manual").rows
    /\ UNCHANGED <<notes, sent_log, ledger, ingestVars, outside>>

CallGetPendingNudges ==
    /\ fetched.n < MaxQueries
    /\ \E include_future \in BOOLEAN :
         fetched' = [n |-> fetched.n + 1, include_future |-> include_future,
                     rows |-> get_pending_nudges(nudges, include_future)]
    /\ UNCHANGED <<store, ingestVars, calendar, emails, smsOut, transport, briefing, conn, helper, inbox>>

NextPending == CallAddNudgeDue \/ CallCompleteNudge \/ CallGetPendingNudges

SpecPending == InitParse /\ [][NextPending]_vars

(***************************************************************************)
(* Properties.                                                             *)
(***************************************************************************)
InLedger(id) == \E i \in 1..Len(ledger) : ledger[i].message_id = id
LedgerRows(tbl, id) == {i \in 1..Len(tbl) : tbl[i].message_id = id}

\* What a command can write to or send: the tables, the calendar, the outboxes.
durable == <<nudges, notes, ledger, calendar, emails, smsOut>>

\* C1 (Idempotency of ingestion): a run that meets a message whose id already has a
\* ledger row is at the dedup gate, and its step passes on to the next message with
\* nudges, notes, ledger, calendar and both outboxes exactly as they were.
C1_IdempotentIngest ==
    [][\A r \in Runs :
         (Active(r) /\ InLedger(Cur(r).message_id))
            => /\ pc[r] = "dedup"
               /\ UNCHANGED durable
               /\ todo'[r] = Tail(todo[r])]_vars

\* C1 witness: the first run processed ADD NUDGE m1 (one reminder, one ledger row) and
\* the second run stands before the same message.
C1_Witness ==
    /\ pc["r1"] = "done"
    /\ pc["r2"] = "dedup"
    /\ Cur("r2").message_id = "m1"
    /\ InLedger("m1")
    /\ Len(nudges) = 1

\* C2 as claimed (At-most-once under interruption): no command takes effect twice.
C2_AtMostOnceUnderInterruption == \A id \in MessageIds : execs[id] <= 1

\* C2 amended: a command takes effect only for a message id that has no ledger row:
\* at most once after its row is written, once more for each interruption that fell
\* between its execution and its ledger write.
C2_NoExecutionOnceLogged ==
    [][\A id \in MessageIds : execs'[id] # execs[id] => ~InLedger(id)]_vars

\* C2 witness: a run was interrupted and a command has taken effect twice.
C2_Witness ==
    /\ \E r \in Runs : pc[r] = "killed"
    /\ \E id \in MessageIds : execs[id] = 2

\* C3 (Batch failure isolation): a run never stops before the end of its batch: when
\* it has ended, no message after the one it was handling is left unvisited.
C3_BatchFailureIsolation ==
    \A r \in Runs : pc[r] \in {"done", "aborted"} => Len(todo[r]) <= 1

\* C4 (Terminal ledger state): when a run leaves a message that had no ledger row, the
\* ledger holds exactly one row for it, "error" with the captured message if an
\* exception was caught and "processed" with no message otherwise; no row is ever
\* changed or removed, and no other status is written.
C4_TerminalLedgerState ==
    [][/\ \A i \in 1..Len(ledger) : i <= Len(ledger') /\ ledger'[i] = ledger[i]
       /\ \A i \in 1..Len(ledger') : ledger'[i].status \in {"processed", "error"}
       /\ \A r \in Runs :
            (Active(r) /\ ~InLedger(Cur(r).message_id) /\ todo'[r] # todo[r])
               => LET rows == LedgerRows(ledger', Cur(r).message_id)
                  IN  /\ Cardinality(rows) = 1
                      /\ \A i \in rows :
                           /\ ledger'[i].status =
                                 IF err[r] # None THEN "error" ELSE "processed"
                           /\ ledger'[i].error_message = err[r]]_vars

\* C4 witness: a run has ended with one message logged "error" and one "processed".
C4_Witness ==
    /\ pc["r1"] = "done"
    /\ \E i, j \in 1..Len(ledger) :
          /\ ledger[i].status = "error" /\ ledger[i].error_message = "HttpError"
          /\ ledger[j].status = "processed"

\* C5 (Ledger uniqueness): no two ledger rows have the same message_id.
C5_LedgerUnique ==
    \A i, j \in 1..Len(ledger) :
        ledger[i].message_id = ledger[j].message_id => i = j

\* C5 witness: two overlapping runs took the same message through the dedup gate; the
\* second one's ledger writes were both rejected and it was aborted.
C5_Witness ==
    /\ \E r \in Runs : pc[r] = "aborted"
    /\ \E id \in MessageIds : execs[id] = 2 /\ InLedger(id)


LegalTransitions ==
    {<<"pending", "sent">>, <<"sent", "completed">>, <<"pending", "cancelled">>}

\* C6: every status change of a reminder, under any sequence of add_nudge,
\* mark_nudge_sent and complete_nudge calls, is a step of pending -> sent -> completed
\* or of pending -> cancelled.
C6_StatusMonotone ==
    [][\A i \in 1..Len(nudges) :
         \/ nudges'[i].status = nudges[i].status
         \/ <<nudges[i].status, nudges'[i].status>> \in LegalTransitions]_vars

\* The milestone command of run r went through create_milestone, and what it would
\* book.
ThroughCreateMilestone(r) ==
    /\ Cmd(r).type = "add_milestone"
    /\ cfg.calendar
    /\ parse_datetime_from_text(Cmd(r).content) # NoDate
MilestoneEvent(r) ==
    LET due_dt == parse_datetime_from_text(Cmd(r).content)
    IN  EventBody(MilestoneSummary(Cmd(r).content), due_dt, MilestoneEnd(due_dt))
ConflictRead(r) ==
    LET due_dt == parse_datetime_from_text(Cmd(r).content)
    IN  check_conflict(calendar, due_dt, MilestoneEnd(due_dt))

\* C7: the conflict read comes before any insert: the calendar changes only in the
\* insert step, which is entered only from a conflict read that returned nothing; a
\* read that returns events leads to no insert and leaves the calendar as it was,
\* without the milestone's event.
C7_CheckBeforeWrite ==
    [][\A r \in Runs :
         /\ calendar' # calendar =>
                \E q \in Runs : pc[q] = "insert" /\ conflicts[q] = {}
         /\ (pc[r] # "insert" /\ pc'[r] = "insert") =>
                /\ pc[r] = "exec"
                /\ ThroughCreateMilestone(r)
                /\ ConflictRead(r) = {}
                /\ calendar' = calendar
         /\ (pc[r] = "exec" /\ pc'[r] # "exec" /\ ThroughCreateMilestone(r)
               /\ ConflictRead(r) # {}) =>
                /\ pc'[r] \in {"conflict", "handler"}
                /\ calendar' = calendar
         /\ (pc[r] = "conflict" \/ pc'[r] = "conflict") =>
                /\ calendar' = calendar
                /\ MilestoneEvent(r) \notin calendar']_vars
C7_Witness ==
    \E r \in Runs :
        /\ pc[r] = "log"
        /\ ThroughCreateMilestone(r)
        /\ conflicts[r] = {Robotics}
        /\ calendar = {Robotics}

Overlap(e, f) == e.end > f.start /\ e.start < f.end

\* C8: the interval queried for conflicts is the interval the milestone occupies, so no
\* milestone event on the calendar overlaps another event of the calendar.
C8_NoOverlappingMilestone ==
    \A e \in calendar, f \in calendar :
        (e.summary[1] = "[MILESTONE] " /\ f # e) => ~Overlap(e, f)

AfterConflict(r) ==
    pc[r] = "log" /\ ThroughCreateMilestone(r) /\ conflicts[r] # {}

\* C9: on a conflict the email notification is attempted exactly when an email channel
\* is configured, the SMS alert exactly when an SMS channel is configured and the
\* conflict list is not empty, the calendar is left alone, and the message's ledger row
\* is then written with status "processed".
C9_ConflictOutcome ==
    [][\A r \in Runs :
         /\ (pc[r] = "conflict" /\ pc'[r] # "conflict") =>
                /\ pc'[r] = "log"
                /\ calendar' = calendar
                /\ Len(emails') = Len(emails) + (IF cfg.smtp THEN 1 ELSE 0)
                /\ cfg.smtp =>
                       /\ emails'[Len(emails')].subject = "[TA] Calendar Conflict Detected"
                       /\ emails'[Len(emails')].body.proposed = Cmd(r).content
                /\ Len(smsOut') =
                       Len(smsOut) + (IF cfg.sms /\ conflicts[r] # {} THEN 1 ELSE 0)
                /\ smsOut' # smsOut => smsOut'[Len(smsOut')].event = Cmd(r).content
         /\ (AfterConflict(r) /\ pc'[r] # "log") =>
                /\ calendar' = calendar
                /\ MilestoneEvent(r) \notin calendar'
                /\ Len(ledger') = Len(ledger) + 1
                /\ ledger'[Len(ledger')].message_id = Cur(r).message_id
                /\ ledger'[Len(ledger')].status = "processed"
         /\ smsOut' # smsOut => \E q \in Runs : pc[q] = "conflict"]_vars
C9_Witness ==
    /\ cfg.smtp /\ cfg.sms
    /\ calendar = {Robotics}
    /\ Len(emails) = 1 /\ emails[1].subject = "[TA] Calendar Conflict Detected"
    /\ Len(smsOut) = 1 /\ smsOut[1].conflict = Robotics.summary
    /\ \E i \in 1..Len(ledger) :
           ledger[i].command_type = "add_milestone" /\ ledger[i].status = "processed"
                /\ ledger[i].message_id = "m2"

\* C10: every body handed to the SMS transport has at most SMS_LIMIT characters,
\* whichever sender of the client was called.
C10_SmsBounded ==
    \A i \in 1..Len(transport) : Len(transport[i]) <= SMS_LIMIT


\* C11: a notification send that returns failure (conflict email, conflict SMS, TODAY
\* response email) does not enter the exception handler: the run goes on to the ledger
\* write, and that write records the message as "processed".
C11_SendFailureNotEscalated ==
    [][\A r \in Runs :
         /\ (/\ pc'[r] # pc[r]
             /\ \/ Len(emails') > Len(emails) /\ ~emails'[Len(emails')].ok
                \/ Len(smsOut') > Len(smsOut) /\ ~smsOut'[Len(smsOut')].ok) =>
                /\ pc'[r] = "log"
                /\ err'[r] = None
                /\ todo'[r] = todo[r]
         /\ (pc[r] = "log" /\ pc'[r] # "log") =>
                /\ Len(ledger') = Len(ledger) + 1
                /\ ledger'[Len(ledger')].message_id = Cur(r).message_id
                /\ ledger'[Len(ledger')].status = "processed"
                /\ ledger'[Len(ledger')].error_message = None]_vars
C11_Witness ==
    /\ \E i \in 1..Len(emails) :
           emails[i].subject = "[TA] Today's Status" /\ ~emails[i].ok
    /\ \E i \in 1..Len(emails) :
           emails[i].subject = "[TA] Calendar Conflict Detected" /\ ~emails[i].ok
    /\ \E i \in 1..Len(smsOut) : ~smsOut[i].ok
    /\ \E i \in 1..Len(ledger) :
           ledger[i].command_type = "today" /\ ledger[i].status = "processed"
    /\ \E i \in 1..Len(ledger) :
           ledger[i].command_type = "add_milestone" /\ ledger[i].status = "processed"

HasErrorRow(id) ==
    \E i \in 1..Len(ledger) : ledger[i].message_id = id /\ ledger[i].status = "error"
\* C12: a message whose ledger row has status "error" is skipped by the dedup gate in
\* a later run: the only step taken for it is the skip, which executes no command,
\* sends nothing and writes no ledger row.
C12_FailedNeverRetried ==
    [][\A r \in Runs :
         (Active(r) /\ HasErrorRow(Cur(r).message_id)) =>
             /\ pc[r] = "dedup"
             /\ pc'[r] # pc[r] \/ todo'[r] # todo[r] =>
                    /\ todo'[r] = Tail(todo[r])
                    /\ pc'[r] \in {"dedup", "done"}
             /\ UNCHANGED <<store, calendar, emails, smsOut, execs, transport, briefing, conn, fetched, helper, inbox>>]_vars
C12_Witness ==
    /\ pc["r1"] = "done"
    /\ pc["r2"] = "dedup"
    /\ HasErrorRow(Cur("r2").message_id)
    /\ execs[Cur("r2").message_id] = 0


\* C13: every notification dispatch attempt has its own sent_log row: the table has as
\* many rows as emails and SMS were attempted, failed attempts included.
C13_AuditRowPerAttempt ==
    Len(sent_log) = Len(emails) + Len(smsOut)

\* C14: missing credentials of a notification channel never abort a run: neither an
\* email-ingest run nor the daily briefing ends on the SMTP or the Twilio constructor's
\* error.
C14_MissingChannelNeverAborts ==
    /\ briefing.pc = "aborted" =>
           briefing.error \notin {"SMTP credentials required", "Twilio credentials required"}
    /\ \A r \in Runs : pc[r] # "aborted"


\* C15: for every subject and body, the empty ones included, _parse_command returns
\* one command whose type is one of the five command types and raises nothing: the
\* email is in the batch with that command.
C15_ParserTotal ==
    [][(pc["r1"] = "idle" /\ pc'["r1"] # "idle") =>
          /\ Len(todo'["r1"]) = 1
          /\ DOMAIN todo'["r1"][1].command = {"type", "content"}
          /\ todo'["r1"][1].command.type \in CommandTypes]_vars
C15_Witness ==
    /\ pc["r1"] = "exec"
    /\ Cur("r1").subject = <<>>
    /\ Cur("r1").body = <<>>
    /\ Cmd("r1").type = "unknown"

\* A keyword of kws stands in the text with, after optional whitespace, at least one
\* character on its line.
Has(text, kws) ==
    \E i \in 1..Len(text) : text[i] \in kws /\ GroupStart(text, i) # 0

\* C16: the command is that of the first pattern, in the order ADD NUDGE, ADD
\* MILESTONE, NOTE, TODAY, that matches anywhere in the text, in either case; it is
\* unknown exactly when none matches; unknown and today carry no content, the others do.
C16_PatternPriority ==
    \A r \in Runs :
        Active(r) =>
            LET text == Cur(r).subject \o <<" ">> \o Cur(r).body
                first == IF Has(text, {"ADD NUDGE:", "add nudge:"}) THEN "add_nudge"
                         ELSE IF Has(text, {"ADD MILESTONE:"}) THEN "add_milestone"
                         ELSE IF Has(text, {"NOTE:"}) THEN "note"
                         ELSE IF \E i \in 1..Len(text) : text[i] = "TODAY" THEN "today"
                         ELSE "unknown"
            IN  /\ Cmd(r).type = first
                /\ Cmd(r).content = None <=> first \in {"today", "unknown"}
C16_Witness ==
    /\ pc["r1"] = "exec"
    /\ Cur("r1").subject = <<"NOTE:", "add nudge:">>
    /\ Cur("r1").body = <<"TODAY", "w">>
    /\ Cmd("r1") = [type |-> "add_nudge", content |-> "TODAYw"]

\* C17: every nudges row has non-empty content.
C17_ContentNonEmpty ==
    \A i \in 1..Len(nudges) : nudges[i].content \notin {"", None}


Range(f) == {f[i] : i \in DOMAIN f}

\* C18: the status response to a TODAY query is composed from inputs that include
\* every reminder and every note the store holds when the query is executed, those
\* created by earlier messages of the same batch included.
C18_TodaySeesEarlierWrites ==
    [][\A r \in Runs :
         (pc[r] = "exec" /\ Cmd(r).type = "today" /\ Len(emails') > Len(emails)) =>
             LET body == emails'[Len(emails')].body
             IN  /\ \A i \in 1..Len(nudges) : nudges[i].content \in Range(body.reminders)
                 /\ \A i \in 1..Len(notes) :
                        /\ "notes" \in DOMAIN body
                        /\ notes[i].content \in Range(body.notes)]_vars

\* C19: executing an AddNudge message inserts exactly one nudges row, with the command
\* content, source "email", status pending, priority normal and the parsed due time
\* (null when none can be parsed), and goes on to the ledger write, which records
\* "processed"; no other step of the run changes nudges.
C19_AddNudgeExecution ==
    [][\A r \in Runs :
         /\ (pc[r] = "exec" /\ Cmd(r).type = "add_nudge" /\ pc'[r] # "exec") =>
                /\ nudges' = Append(nudges,
                       [content |-> Cmd(r).content,
                        due_datetime |-> parse_datetime_from_text(Cmd(r).content),
                        priority |-> "normal", status |-> "pending",
                        source |-> "email", completed_at |-> NoDate])
                /\ pc'[r] = "log"
                /\ err'[r] = None
         /\ (pc[r] = "log" /\ Cmd(r).type = "add_nudge" /\ pc'[r] # "log") =>
                /\ ledger'[Len(ledger')].message_id = Cur(r).message_id
                /\ ledger'[Len(ledger')].status = "processed"
         /\ nudges' # nudges =>
                \E q \in Runs : pc[q] = "exec" /\ Cmd(q).type = "add_nudge"]_vars
C19_Witness ==
    /\ Len(nudges) = 1
    /\ nudges[1].content = "grade quizzes"
    /\ nudges[1].due_datetime = NoDate
    /\ nudges[1].source = "email"
    /\ \E i \in 1..Len(ledger) :
           ledger[i].command_type = "add_nudge" /\ ledger[i].status = "processed"
    /\ pc["r2"] = "done"
    /\ delivered = MaxDelivered

\* An AddMilestone command run r cannot hand to the calendar.
NoDateOrCalendar(r) ==
    /\ Cmd(r).type = "add_milestone"
    /\ ~cfg.calendar \/ parse_datetime_from_text(Cmd(r).content) = NoDate

\* C20: an AddMilestone message whose due time cannot be parsed, or that finds no
\* calendar client, makes no calendar read or write and sends no notification; its
\* ledger row is written with command_type add_milestone and status "processed".
C20_MilestoneWithoutDateOrCalendar ==
    [][\A r \in Runs :
         (Active(r) /\ NoDateOrCalendar(r) /\ ~InLedger(Cur(r).message_id)) =>
             /\ UNCHANGED <<calendar, emails, smsOut, conflicts>>
             /\ pc[r] \in {"dedup", "exec", "log"}
             /\ pc'[r] \in {"dedup", "exec", "log", "done"}
             /\ (pc[r] = "log" /\ pc'[r] # "log") =>
                    /\ ledger'[Len(ledger')].message_id = Cur(r).message_id
                    /\ ledger'[Len(ledger')].command_type = "add_milestone"
                    /\ ledger'[Len(ledger')].status = "processed"]_vars
C20_Witness ==
    /\ cfg.calendar
    /\ calendar = {Robotics}
    /\ \E i \in 1..Len(ledger) :
           ledger[i].message_id = "m3" /\ ledger[i].status = "processed"
    /\ execs["m3"] = 0


\* C21: processing a message whose command is unknown changes neither nudges, notes,
\* sent_log nor the calendar and sends nothing; its only effect is the ledger row, with
\* command_type "unknown" and status "processed".
C21_UnknownFrame ==
    [][\A r \in Runs :
         (Active(r) /\ Cmd(r).type = "unknown" /\ ~InLedger(Cur(r).message_id)) =>
             /\ UNCHANGED <<nudges, notes, sent_log, calendar, emails, smsOut, execs>>
             /\ pc[r] \in {"dedup", "exec", "log"}
             /\ ledger' # ledger =>
                    /\ pc[r] = "log"
                    /\ ledger' = Append(ledger, ledger'[Len(ledger')])
                    /\ ledger'[Len(ledger')].message_id = Cur(r).message_id
                    /\ ledger'[Len(ledger')].command_type = "unknown"
                    /\ ledger'[Len(ledger')].status = "processed"
             /\ (pc[r] = "log" /\ pc'[r] # "log") => ledger' # ledger]_vars
C21_Witness ==
    /\ \E i \in 1..Len(ledger) :
           /\ ledger[i].message_id = "m6"
           /\ ledger[i].command_type = "unknown"
           /\ ledger[i].status = "processed"
    /\ execs["m6"] = 0
    /\ pc["r1"] = "done"


\* The events of today: those that overlap the local day of the calendar's zone.
TodayEvents(cal) ==
    LET today == Now - (Now % DayMinutes)
    IN  {e \in cal : e.end > InZone(today) /\ e.start < InZone(today + DayMinutes)}

\* C22: the response to a TODAY query is composed from the pending reminders and, when
\* the calendar is available, from today's events (from an empty schedule otherwise);
\* with an email channel exactly one email is sent, to the message's sender.
C22_TodayResponse ==
    [][\A r \in Runs :
         (pc[r] = "exec" /\ Cmd(r).type = "today" /\ pc'[r] = "log") =>
             IF cfg.smtp
             THEN /\ Len(emails') = Len(emails) + 1
                  /\ SubSeq(emails', 1, Len(emails)) = emails
                  /\ emails'[Len(emails')].to = Cur(r).sender
                  /\ emails'[Len(emails')].subject = "[TA] Today's Status"
                  /\ Range(emails'[Len(emails')].body.reminders) =
                         {nudges[i].content :
                              i \in {j \in 1..Len(nudges) : nudges[j].status = "pending"}}
                  /\ emails'[Len(emails')].body.schedule =
                         IF cfg.calendar
                         THEN {e.summary : e \in TodayEvents(calendar)}
                         ELSE {}
             ELSE emails' = emails]_vars


\* C23: a store write commits exactly once when its body succeeds, and the tables then
\* hold its one statement's effect; when the body or the commit raises, the exception
\* reaches the caller and the tables are as before the call.
C23_ScopedTransaction ==
    [][/\ store' # store =>
            /\ conn.pc = "commit" /\ conn'.pc = "returned"
            /\ Statement(conn.call, conn.before).ok
            /\ Tables' = Statement(conn.call, conn.before).tables
       /\ conn'.pc = "returned" =>
            /\ conn'.commits = 1
            /\ conn'.error = None
            /\ Tables' = Statement(conn.call, conn.before).tables
       /\ conn'.pc = "raised" =>
            /\ conn'.commits = 0
            /\ conn'.error # None
            /\ Tables' = conn'.before]_vars
C23_Witness ==
    /\ conn.pc = "raised"
    /\ conn.calls = 2
    /\ conn.call.op = "add_note"
    /\ conn.call.content = "lab went long"
    /\ conn.error = "OperationalError"
    /\ Len(nudges) = 1
    /\ notes = <<>>


\* The rows of tbl a get_pending_nudges(include_future) call has to return.
Wanted(tbl, include_future) ==
    {i \in 1..Len(tbl) :
        /\ tbl[i].status = "pending"
        /\ include_future \/ ~(tbl[i].due_datetime # NoDate /\ tbl[i].due_datetime > Now)}

\* C24: get_pending_nudges returns exactly the pending reminders, each once, ordered by
\* due time ascending with the reminders without due time first; with include_future
\* false exactly the rows due later than the call time are left out as well.
C24_PendingReminders ==
    [][fetched'.n # fetched.n =>
         LET rows == fetched'.rows
             wanted == Wanted(nudges, fetched'.include_future)
         IN  /\ Len(rows) = Cardinality(wanted)
             /\ \A i \in wanted :
                  Cardinality({k \in 1..Len(rows) : rows[k] = nudges[i]})
                      = Cardinality({j \in wanted : nudges[j] = nudges[i]})
             /\ \A j, k \in 1..Len(rows) :
                  j < k => \/ rows[j].due_datetime = NoDate
                           \/ /\ rows[k].due_datetime # NoDate
                              /\ rows[j].due_datetime <= rows[k].due_datetime]_vars
C24_Witness ==
    /\ fetched.n = 1
    /\ ~fetched.include_future
    /\ Len(nudges) = MaxNudges
    /\ Len(fetched.rows) = 2
    /\ fetched.rows[1].due_datetime = NoDate
    /\ fetched.rows[2].due_datetime = Now
    /\ nudges[1].due_datetime = Now
    /\ nudges[2].due_datetime = NoDate


\* Run r is between the dedup check of its current message and that message's ledger
\* write.
Executing(r) == pc[r] \in {"exec", "insert", "conflict", "log", "handler"}
effects == <<nudges, notes, sent_log, calendar, emails, smsOut>>

\* C25: per message, the dedup check comes before any store mutation, calendar write or
\* notification; the ledger write is the last store operation for the message; and no
\* ledger row of a message exists while its command is being executed.
C25_StepOrder ==
    /\ [](\A r \in Runs : Executing(r) => ~InLedger(Cur(r).message_id))
    /\ [][\A r \in Runs :
            /\ (pc'[r] = "exec" /\ pc[r] # "exec") =>
                    /\ pc[r] = "dedup"
                    /\ ~is_email_processed(ledger, Cur(r).message_id)
                    /\ UNCHANGED <<effects, ledger, execs>>
            /\ (pc[r] = "dedup" /\ pc'[r] # "dedup") => UNCHANGED <<effects, ledger, execs>>
            /\ (pc'[r] # pc[r] /\ effects' # effects) =>
                    /\ pc[r] \in {"exec", "insert", "conflict"}
                    /\ ledger' = ledger
            /\ (pc'[r] # pc[r] /\ ledger' # ledger) =>
                    /\ pc[r] \in {"log", "handler"}
                    /\ effects' = effects
                    /\ ledger' = Append(ledger, ledger'[Len(ledger')])
                    /\ ledger'[Len(ledger')].message_id = Cur(r).message_id
                    /\ todo'[r] = Tail(todo[r])
                    /\ pc'[r] \in {"dedup", "done"}]_vars
C25_Witness ==
    /\ pc["r1"] = "log"
    /\ Cur("r1").message_id = "m2"
    /\ execs["m2"] = 1
    /\ ~InLedger("m2")
    /\ InLedger("m1")
    /\ Len(nudges) = 1


\* The daily briefing ended and its email was dispatched successfully.
BriefingDispatched ==
    /\ briefing.pc = "done"
    /\ emails # <<>>
    /\ emails[Len(emails)].ok

\* C26: after a daily briefing whose notification was dispatched successfully, the
\* reminders included in it are no longer pending.
C26_BriefingMarksSent ==
    BriefingDispatched =>
        \A i \in 1..Len(nudges) :
            (\E k \in 1..Len(briefing.pending) : briefing.pending[k] = nudges[i]) =>
                nudges[i].status # "pending"


\* C27: after any sequence of add_nudge, mark_nudge_sent and complete_nudge calls, a
\* reminder's completed_at is set if and only if its status is completed.
C27_CompletedAtConsistent ==
    \A i \in 1..Len(nudges) :
        nudges[i].completed_at # NoDate <=> nudges[i].status = "completed"


\* A log_email_ingest call is under way for a message_id that had a ledger row when
\* the call began.
DuplicateInsert ==
    /\ conn.pc # "idle"
    /\ conn.call.op = "log_email_ingest"
    /\ \E i \in 1..Len(conn.before.ledger) :
         conn.before.ledger[i].message_id = conn.call.message_id

\* C28: log_email_ingest with a message_id that already has a ledger row raises and
\* leaves every table, the existing row included, as it was.
C28_DuplicateInsertRejected ==
    DuplicateInsert =>
        /\ Tables = conn.before
        /\ conn.pc \in {"body", "except", "raised"}
        /\ conn.commits = 0
        /\ conn.pc = "raised" => conn.error # None
C28_Witness ==
    /\ DuplicateInsert
    /\ conn.pc = "raised"
    /\ conn.error = "IntegrityError"
    /\ Len(ledger) = 1
    /\ ledger[1].status = "error"
    /\ conn.call.status = "processed"


HelperSenders == {"send_nudge_reminder", "send_daily_summary", "send_conflict_alert"}

\* C29: what a helper sender transmits is its composed message unchanged when that has at
\* most 160 characters, and otherwise the first 157 characters followed by "...", 160
\* characters in all.
C29_HelperTruncation ==
    [][(helper' # helper /\ helper'.call \in HelperSenders /\ transport' # transport) =>
         LET message == helper'.message
             body == transport'[Len(transport')]
         IN  /\ Len(transport') = Len(transport) + 1
             /\ IF Len(message) > 160
                THEN /\ Len(body) = 160
                     /\ \A i \in 1..157 : body[i] = message[i]
                     /\ \A i \in 158..160 : body[i] = "."
                ELSE body = message]_vars
C29_Witness ==
    /\ helper.call = "send_nudge_reminder"
    /\ Len(helper.message) = 161
    /\ transport # <<>>
    /\ Len(transport[Len(transport)]) = 160
    /\ transport[Len(transport)][157] = helper.message[157]
    /\ transport[Len(transport)][158] = "."


\* The due time the command c states: the next day at its clock time in 24-hour form,
\* 09:00 without a clock time, none for a time that is not a clock time.
StatedDue(c) ==
    LET clock == c.clock
        tomorrow == (Now - (Now % DayMinutes)) + DayMinutes
        hour == CASE clock.period = "am" /\ clock.hour = 12 -> 0
                  [] clock.period = "pm" /\ clock.hour < 12 -> clock.hour + 12
                  [] OTHER -> clock.hour
    IN  IF clock.period = "none" THEN tomorrow + 9 * HourMinutes
        ELSE IF clock.hour > 23 \/ clock.minute > 59 THEN NoDate
        ELSE tomorrow + hour * HourMinutes + clock.minute

\* C30: the reminder of an ADD NUDGE command with "tomorrow" and a clock time is due the
\* next day at that time in 24-hour form, whatever else the content holds; without a
\* clock time at 09:00; with a time that is no clock time it has no due time.
C30_TomorrowDue ==
    \A i \in 1..Len(nudges) :
        \A c \in TomorrowCommands :
            nudges[i].content = Render(Content(c)) =>
                nudges[i].due_datetime = StatedDue(c)

\* The same for commands whose only digits are those of the clock time.
C30_TomorrowDue_plain ==
    \A i \in 1..Len(nudges) :
        \A c \in TomorrowCommands :
            (nudges[i].content = Render(Content(c)) /\ c.subject = <<"Print rubrics ">>) =>
                nudges[i].due_datetime = StatedDue(c)


\* C31: the dedup gate skips a message only if a ledger row written for that same
\* message exists; distinct messages, those without a Message-ID header included, never
\* share a ledger key.
C31_DedupSameMessage ==
    [][\A r \in Runs :
         (pc[r] = "dedup" /\ todo'[r] = Tail(todo[r])) =>
             \E i \in 1..Len(ledger) :
                 /\ ledger[i].message_id = Cur(r).message_id
                 /\ ledger[i].subject = Cur(r).subject]_vars


\* C32: when runs overlap and see the same unread message, its command takes effect at
\* most once, one ledger row results, and no run is aborted by the other's ledger write.
C32_OverlapSafe ==
    /\ \A id \in MessageIds : execs[id] <= 1
    /\ \A id \in MessageIds : Cardinality(LedgerRows(ledger, id)) <= 1
    /\ \A r \in Runs : pc[r] # "aborted"


\* C33: every sent_log row of the daily briefing holds, for its channel, the content
\* that was dispatched on that channel and the recipient it went to: the email row the
\* body given to send_email, the SMS row the text given to send_sms.
C33_AuditFidelity ==
    \A i \in 1..Len(sent_log) :
        /\ sent_log[i].channel = "email" =>
              \E k \in 1..Len(emails) :
                  /\ emails[k].ok
                  /\ emails[k].to = sent_log[i].recipient
                  /\ emails[k].body.text = sent_log[i].content
        /\ sent_log[i].channel = "sms" =>
              \E k \in 1..Len(smsOut) :
                  /\ smsOut[k].ok
                  /\ smsOut[k].call = sent_log[i].content

\* The recipient alone: each row names the address its channel's dispatch went to.
C33_RecipientFidelity ==
    \A i \in 1..Len(sent_log) :
        /\ sent_log[i].channel = "email" =>
              \E k \in 1..Len(emails) : emails[k].ok /\ emails[k].to = sent_log[i].recipient
        /\ sent_log[i].channel = "sms" =>
              /\ sent_log[i].recipient = DefaultNumber
              /\ \E k \in 1..Len(smsOut) : smsOut[k].ok


\* Every row of tbl is still in place, unchanged.
Kept(tbl, after) == Len(after) >= Len(tbl) /\ SubSeq(after, 1, Len(tbl)) = tbl
\* Run r takes the step that executes its command of the given type.
Executes(r, type) == pc[r] = "exec" /\ Cmd(r).type = type /\ pc'[r] # "exec"

\* C34: each command writes only its own target besides the ledger.  AddNudge inserts
\* one nudges row and leaves notes and the calendar; Note inserts one notes row with
\* source "email" and leaves nudges and the calendar; AddMilestone and Today leave nudges
\* and notes; no step changes or removes a nudges, notes or ledger row.
C34_CommandFrame ==
    [][/\ Kept(nudges, nudges') /\ Kept(notes, notes') /\ Kept(ledger, ledger')
       /\ \A r \in Runs :
            /\ Executes(r, "add_nudge") =>
                  /\ Len(nudges') = Len(nudges) + 1
                  /\ nudges'[Len(nudges')].content = Cmd(r).content
                  /\ UNCHANGED <<notes, calendar>>
            /\ Executes(r, "note") =>
                  /\ Len(notes') = Len(notes) + 1
                  /\ notes'[Len(notes')].content = Cmd(r).content
                  /\ notes'[Len(notes')].source = "email"
                  /\ UNCHANGED <<nudges, calendar>>
            /\ (pc'[r] # pc[r] /\ Active(r) /\ Cmd(r).type \notin {"add_nudge", "note"}) =>
                  UNCHANGED <<nudges, notes>>
            /\ (pc'[r] # pc[r] /\ pc[r] # "exec") => UNCHANGED <<nudges, notes>>]_vars
C34_Witness ==
    /\ Len(notes) = 1
    /\ notes[1].source = "email"
    /\ Len(nudges) = 1
    /\ nudges[1].source = "email"
    /\ InLedger("m1") /\ InLedger("m4") /\ InLedger("m2")
    /\ calendar # {}

==============================================================================
